---------------------------- MODULE Spec2Model ----------------------------
(***************************************************************************)
(* Framing, reassembly and request/response behaviour of the test clients  *)
(* of zephyr_io:                                                           *)
(*   - IoTSensePacket / TCPClient   (swift_io router sample test)          *)
(*   - IoTSenseClient               (packet_io tcp_client_demo and tools)  *)
(*   - SampleClient / PacketClient  (flow and packet_routing samples)      *)
(* A byte is a natural number in 0..255, a byte string a sequence of bytes.*)
(***************************************************************************)
EXTENDS Integers, Sequences, FiniteSets, TLC

(***************************************************************************)
(* Protocol constants                                                      *)
(***************************************************************************)
IOTSENSE_VERSION == 1
PKT_ID_SENSOR_TEMP == 1
PKT_ID_ACTUATOR_LED == 2
PKT_ID_SYSTEM_CONFIG == 9
PING_CMD == 1
CMD_START_SAMPLING == 1
CMD_STOP_SAMPLING == 2

(***************************************************************************)
(* Bounds of the model                                                     *)
(***************************************************************************)
\* longest enumerated short payload of the codec specification
MaxPayload == 2
\* number of sockets (connect attempts) and so of receive threads of one TCPClient
MaxSockets == 2
\* number of packets in a stream of the reassembly specification
MaxStreamPackets == 2
\* number of unsolicited packets the peer of a blocking reader sends
MaxPeerSends == 2
\* number of pings a tools IoTSenseClient sends
MaxPings == 1
\* number of commands a SampleClient, and of datagrams a UdpServer, sends
MaxCommands == 2
\* number of datagrams the device sends to a UdpServer
MaxDatagrams == 2
\* largest number of arbitrary bytes in front of the packets of a corrupt stream
MaxCorruptLen == 4
\* the capacity that the queue of received packets is held against: one
\* packet less than the peer sends
QueueCapacity == MaxStreamPackets - 1

(***************************************************************************)
(* Helpers on byte strings                                                 *)
(***************************************************************************)
Drop(s, n) == IF n >= Len(s) THEN << >> ELSE SubSeq(s, n + 1, Len(s))
Take(s, n) == IF n >= Len(s) THEN s ELSE SubSeq(s, 1, n)

\* struct '<H': 16-bit little-endian
PackU16(n) == << n % 256, (n \div 256) % 256 >>
UnpackU16(lo, hi) == lo + 256 * hi

RECURSIVE SeqsUpTo(_, _)
SeqsUpTo(S, n) ==
    IF n = 0 THEN { << >> }
    ELSE LET shorter == SeqsUpTo(S, n - 1)
         IN  shorter \cup { Append(s, b) : s \in { x \in shorter : Len(x) = n - 1 }, b \in S }

(***************************************************************************)
(* IoTSensePacket (simplified 4-byte header)                               *)
(***************************************************************************)
\* the value Python's None stands for where a packet is expected
None == [version |-> -1, packet_id |-> -1, payload_len |-> -1, payload |-> << >>]

\* the outcome of pack() when it raises ValueError
ValueError == << -1 >>

IoTSensePacket(packet_id, payload) ==
    [version |-> IOTSENSE_VERSION, packet_id |-> packet_id,
     payload_len |-> Len(payload), payload |-> payload]

\* pack with the length field written big-endian ('>H')
pack_BigEndianLength(p) ==
    IF p.payload_len > 65535 THEN ValueError
    ELSE << p.version, p.packet_id, (p.payload_len \div 256) % 256, p.payload_len % 256 >>
         \o p.payload

\* pack with the fields in the order version, length, packet_id ('<BHB')
pack_LengthBeforeId(p) ==
    IF p.payload_len > 65535 THEN ValueError
    ELSE << p.version >> \o PackU16(p.payload_len) \o << p.packet_id >> \o p.payload

pack(p) ==
    IF p.payload_len > 65535 THEN ValueError
    ELSE << p.version, p.packet_id >> \o PackU16(p.payload_len) \o p.payload

\* unpack returning None for a header whose version is not IOTSENSE_VERSION
unpack_ChecksVersion(data) ==
    IF Len(data) < 4 THEN None
    ELSE IF data[1] # IOTSENSE_VERSION THEN None
    ELSE LET plen == UnpackU16(data[3], data[4])
         IN  [version |-> data[1], packet_id |-> data[2], payload_len |-> plen,
              payload |-> IF Len(data) >= 4 + plen
                          THEN SubSeq(data, 5, 4 + plen) ELSE << >>]

unpack(data) ==
    IF Len(data) < 4 THEN None
    ELSE LET plen == UnpackU16(data[3], data[4])
         IN  [version |-> data[1], packet_id |-> data[2], payload_len |-> plen,
              payload |-> IF Len(data) >= 4 + plen
                          THEN SubSeq(data, 5, 4 + plen) ELSE << >>]

(***************************************************************************)
(* Variables                                                               *)
(***************************************************************************)
VARIABLES
    \* codec specification: one packet through pack and unpack
    cpc, cpkt, cwire, cout,
    \* the encoders: which one is called, the bytes it handed to the socket
    cenc, csent,
    \* TCPClient fields (0 stands for None)
    socket, connected, running, received_packets, receive_thread,
    \* the socket objects: state, bytes sent by the peer and not yet arrived,
    \* bytes arrived and not yet read, whether the peer has closed
    sockState, inflight, wire, peerClosed,
    \* the _receive_loop threads: position, local buffer, socket being read
    tpc, buffer, tsock,
    \* observation of the receive loop: the buffer after 'buffer += data', the
    \* data of that recv and the number of packets appended since
    bufAtParse, lastData, emitted,
    \* observation of the peer: all bytes it sent, the packets they encode,
    \* the number of stray bytes in front of them
    stream, sentPkts, corrupt,
    \* the test thread using the TCPClient: its position, the count argument
    \* and result of wait_for_packets, the pings the device has received on
    \* each socket and not answered
    mpc, wcount, wresult, toDevice,
    \* observation of the test thread: len(received_packets) when
    \* wait_for_packets returned, the progress of the clear / ping / wait
    \* scenario, the number of pings and of unsolicited packets sent so far
    wlenAtReturn, scen, pingsSent, tempsSent,
    \* tcp_client_demo IoTSenseClient: bytes in flight and arrived on its socket,
    \* the data of the last recv and which method made it, the list returned by
    \* receive_packets, the position and count of receive_temperature_data
    dinflight, dwire, ddata, dlast, dpackets, dpc, dcount,
    \* observation of the demo parsers: the offset each packet of the last
    \* scan was found at, and the offset the scan ended at
    dstarts, doffset,
    \* the whole stream the peer of the demo client sends, the packets that
    \* successive receive_packets calls have returned, and the methods that
    \* have read bytes of the stream
    dstream, dall, dreadBy,
    \* blocking stream readers (SampleClient, PacketClient, tools IoTSenseClient):
    \* which client, bytes in flight and arrived on its socket, position inside
    \* receive_packet, local data of _recv_exact, the decoded header, the last
    \* value returned, the caller of receive_packet
    rclient, rinflight, rwire, rpc, rdata, rhdr, rlast, rcaller,
    \* IoTSenseClient.ping: position, sequence number, result
    ppc, pingSeq, pingResult,
    \* observation of the readers: the packets the peer sent with the stream
    \* offsets they start at, bytes sent, bytes read, the offset the current
    \* call started reading at, the packets returned with that offset, and
    \* why the last receive_packet, and the one ping made, returned
    rsentLog, rtotal, rconsumed, rcallStart, rreturned, rwhy, pingWhy,
    \* the peer of the reader has closed the connection; receive_packets:
    \* position, the count argument, the list of packets collected (each with
    \* the stream offset its receive_packet call started at)
    rclosed, bpc, bcount, bpackets,
    \* the clock of a receive_packets call, in ticks (-1: time is not
    \* observed): the time since the call started and the time the current
    \* sock.recv has been blocked
    bnow, rblocked,
    \* the device of a SampleClient / PacketClient: whether it is sampling, the
    \* number of command bytes it has processed; whether the last
    \* receive_packets call started after the device processed a stop command
    sampling, devTaken, bquiet,
    \* SampleClient: self.packet_count and self.bytes_received; the timeout of
    \* its socket and the old_timeout that receive_packets saved
    packet_count, bytes_received, rsockTimeout, old_timeout,
    \* a second thread of the TCPClient test that calls disconnect() while the
    \* test thread is inside wait_for_packets: its position; the value the
    \* last send_packet returned
    closerPc, sendResult,
    \* which object a session-lifecycle behaviour exercises
    sclient,
    \* SampleClient: self.sock (0 is None), self.connected, the state of each
    \* socket it created, the command bytes the server received, the value the
    \* last call returned and which call that was
    s_sock, s_connected, s_sockState, s_sent, s_result, s_last,
    \* UdpServer: self._socket (0 is None), self._last_sender (0 is None), the
    \* state of each socket it created, the datagrams waiting in the socket,
    \* the datagrams sent, the outcome of the last call and which call that was
    u_socket, u_last_sender, u_sockState, u_queue, u_out, u_result, u_last,
    \* the last UdpPacket recv_from returned, the timeout set on the socket (in
    \* tenths of a second, -1 when none was set), the address argument of the
    \* send_to call just made (0 is None, -1 when the last call was no send_to)
    u_packet, u_timeout, u_address,
    \* the test that uses the udp_server fixture: its udp_timeout marker and
    \* the value of the --udp-timeout option
    u_marker, u_option,
    \* tcp_connection fixture: position, the timeout it computed, the loop
    \* variable, the current socket, the open sockets, and the numbers of
    \* sockets created and of sleeps made and the sockets yielded so far
    fpc, ftimeout, attempt, fsock, fopen, fcreated, fsleeps, fyields,
    \* the harness package of the fixture, the tcp_timeout marker of the test,
    \* the --tcp-timeout option, and the timeout set on the current socket
    fharness, fmarker, foption, fsockTimeout

codecVars == << cpc, cpkt, cwire, cout, cenc, csent >>
clientVars == << socket, connected, running, received_packets, receive_thread >>
sockVars == << sockState, inflight, wire, peerClosed >>
threadVars == << tpc, buffer, tsock, bufAtParse, lastData, emitted >>
peerVars == << stream, sentPkts, corrupt >>
testVars == << mpc, wcount, wresult, toDevice, wlenAtReturn, scen, pingsSent, tempsSent >>
tcpVars == << clientVars, sockVars, threadVars, peerVars, testVars >>
demoVars == << dinflight, dwire, ddata, dlast, dpackets, dpc, dcount, dstarts, doffset,
              dstream, dall, dreadBy >>
batchVars == << bpc, bcount, bpackets >>
timeVars == << bnow, rblocked >>
samplingVars == << sampling, devTaken, bquiet >>
counterVars == << packet_count, bytes_received >>
timeoutVars == << rsockTimeout, old_timeout >>
readerVars == << rclient, rinflight, rwire, rpc, rdata, rhdr, rlast, rcaller,
                ppc, pingSeq, pingResult,
                rsentLog, rtotal, rconsumed, rcallStart, rreturned, rwhy, pingWhy,
                rclosed, batchVars, timeVars, samplingVars, counterVars, timeoutVars >>
callVars == << closerPc, sendResult >>
sampleVars == << s_sock, s_connected, s_sockState, s_sent, s_result, s_last >>
udpVars == << u_socket, u_last_sender, u_sockState, u_queue, u_out, u_result, u_last,
             u_packet, u_timeout, u_address, u_marker, u_option >>
fixtureInputs == << fharness, fmarker, foption >>
fixtureVars == << fpc, ftimeout, attempt, fsock, fopen, fcreated, fsleeps, fyields,
                 fixtureInputs, fsockTimeout >>
sessionVars == << callVars, sclient, sampleVars, udpVars, fixtureVars >>
vars == << codecVars, tcpVars, demoVars, readerVars, sessionVars >>

\* no second thread, nothing sent
CallIdle ==
    /\ closerPc = "none"
    /\ sendResult = "none"

\* no SampleClient constructed
SampleIdle ==
    /\ s_sock = 0
    /\ s_connected = FALSE
    /\ s_sockState = [x \in 1..MaxSockets |-> "none"]
    /\ s_sent = << >>
    /\ s_result = "none"
    /\ s_last = "none"

\* no datagram: the UdpPacket of a server that has returned none
NoDatagram == [data |-> << >>, address |-> 0]

\* a test without udp_timeout marker; the default of --udp-timeout, 10.0 s
NoMarker == [present |-> FALSE, args |-> << >>]
DefaultUdpOption == 100

\* the fields of a UdpServer after construction
UdpFields ==
    /\ u_socket = 0
    /\ u_last_sender = 0
    /\ u_sockState = [x \in 1..MaxSockets |-> "none"]
    /\ u_queue = << >>
    /\ u_out = << >>
    /\ u_result = "none"
    /\ u_last = "none"
    /\ u_packet = NoDatagram
    /\ u_timeout = -1
    /\ u_address = -1

\* no UdpServer constructed
UdpIdle ==
    /\ UdpFields
    /\ u_marker = NoMarker
    /\ u_option = DefaultUdpOption

\* the fixture function not called
\* no --tcp-timeout option: the plugin that adds it is not loaded
NoOption == [registered |-> FALSE, given |-> FALSE, value |-> -1]

FixtureIdle ==
    /\ fpc = "off"
    /\ ftimeout = -1
    /\ fharness = "none"
    /\ fmarker = NoMarker
    /\ foption = NoOption
    /\ fsockTimeout = -1
    /\ attempt = 0
    /\ fsock = 0
    /\ fopen = {}
    /\ fcreated = 0
    /\ fsleeps = 0
    /\ fyields = << >>

SessionIdle == CallIdle /\ sclient = "none" /\ SampleIdle /\ UdpIdle /\ FixtureIdle

(***************************************************************************)
(* Codec specification: pack then unpack of one packet                     *)
(***************************************************************************)
CodecIds == {0, 1, 2, 9, 255}
CodecBytes == {0, 1, 255}
\* payload lengths that need the high byte of the length field
LongLens == {255, 256, 258, 65535, 65536}
LongPayload(n) == [i \in 1..n |-> (i * 7) % 256]
\* the payload length of the wire-layout scenario
ScenarioLen == 7
CodecPayloads ==
    SeqsUpTo(CodecBytes, MaxPayload) \cup { LongPayload(n) : n \in LongLens \cup {ScenarioLen} }

CodecIdle ==
    /\ cpc = "off"
    /\ cpkt = None
    /\ cwire = << >>
    /\ cout = None
    /\ cenc = "none"
    /\ csent = << >>

CodecInit ==
    /\ cpc = "constructed"
    /\ cpkt \in { IoTSensePacket(id, pl) : id \in CodecIds, pl \in CodecPayloads }
    /\ cwire = << >>
    /\ cout = None
    /\ cenc = "IoTSensePacket.pack"
    /\ csent = << >>

CodecPack ==
    /\ cpc = "constructed"
    /\ cwire' = pack(cpkt)
    /\ cpc' = IF pack(cpkt) = ValueError THEN "raised" ELSE "packed"
    /\ UNCHANGED << cpkt, cout, cenc, csent >>
    /\ UNCHANGED << sessionVars, tcpVars, demoVars, readerVars >>

CodecUnpack ==
    /\ cpc = "packed"
    /\ cout' = unpack(cwire)
    /\ cpc' = "unpacked"
    /\ UNCHANGED << cpkt, cwire, cenc, csent >>
    /\ UNCHANGED << sessionVars, tcpVars, demoVars, readerVars >>

CodecNext == CodecPack \/ CodecUnpack

(***************************************************************************)
(* The encoders of the simplified header: TCPClient.send_packet (through   *)
(* IoTSensePacket.pack), and create_packet / send_packet of the two        *)
(* IoTSenseClient classes                                                  *)
(***************************************************************************)
\* the outcome of struct.pack when it raises struct.error
StructError == << -2 >>

\* struct.pack('<BBH', version, packet_id, length): struct.error when a
\* value does not fit its field
StructPackBBH(version, packet_id, length) ==
    IF version \notin 0..255 \/ packet_id \notin 0..255 \/ length \notin 0..65535
    THEN StructError
    ELSE << version, packet_id >> \o PackU16(length)

\* create_packet with the length masked to 16 bits instead of an error
create_packet_WrapsLength(packet_id, payload) ==
    << IOTSENSE_VERSION, packet_id >> \o PackU16(Len(payload) % 65536) \o payload

\* tcp_client_demo IoTSenseClient.create_packet(packet_id, payload)
create_packet(packet_id, payload) ==
    LET header == StructPackBBH(IOTSENSE_VERSION, packet_id, Len(payload))
    IN  IF header = StructError THEN StructError ELSE header \o payload

Encoders == {"TCPClient.send_packet", "demo.send_packet", "tools.send_packet"}

\* a connected client about to send the packet (packet_id, payload)
EncodeInit ==
    /\ cpc = "constructed"
    /\ cpkt \in { IoTSensePacket(id, pl) : id \in CodecIds, pl \in CodecPayloads }
    /\ cwire = << >>
    /\ cout = None
    /\ cenc \in Encoders
    /\ csent = << >>

\* TCPClient.send_packet(packet): data = packet.pack(); self.socket.send(data);
\* return True; the ValueError of pack is caught: return False
TcpSendPacket ==
    /\ cenc = "TCPClient.send_packet"
    /\ cpc = "constructed"
    /\ cwire' = pack(cpkt)
    /\ IF pack(cpkt) = ValueError
       THEN /\ cpc' = "False"
            /\ UNCHANGED csent
       ELSE /\ cpc' = "True"
            /\ csent' = pack(cpkt)
    /\ UNCHANGED << cpkt, cout, cenc >>
    /\ UNCHANGED << sessionVars, tcpVars, demoVars, readerVars >>

\* tcp_client_demo send_packet(packet_id, payload): create_packet outside the
\* try (struct.error is raised to the caller), then self.socket.send(packet)
\* returns True, or raises and False is returned
DemoSendPacket ==
    /\ cenc = "demo.send_packet"
    /\ cpc = "constructed"
    /\ LET packet == create_packet(cpkt.packet_id, cpkt.payload)
       IN  /\ cwire' = packet
           /\ IF packet = StructError
              THEN /\ cpc' = "raised"
                   /\ UNCHANGED csent
              ELSE \/ /\ cpc' = "True"
                      /\ csent' = packet
                   \/ /\ cpc' = "False"
                      /\ UNCHANGED csent
    /\ UNCHANGED << cpkt, cout, cenc >>
    /\ UNCHANGED << sessionVars, tcpVars, demoVars, readerVars >>

\* tools send_packet(packet_id, payload): header = struct.pack(...);
\* self.socket.sendall(header + payload); return True
IoTSendPacket ==
    /\ cenc = "tools.send_packet"
    /\ cpc = "constructed"
    /\ LET header == StructPackBBH(IOTSENSE_VERSION, cpkt.packet_id, Len(cpkt.payload))
       IN  IF header = StructError
           THEN /\ cpc' = "raised"
                /\ cwire' = StructError
                /\ UNCHANGED csent
           ELSE /\ cwire' = header \o cpkt.payload
                /\ \/ /\ cpc' = "True"
                      /\ csent' = header \o cpkt.payload
                   \/ /\ cpc' = "raised"
                      /\ UNCHANGED csent
    /\ UNCHANGED << cpkt, cout, cenc >>
    /\ UNCHANGED << sessionVars, tcpVars, demoVars, readerVars >>

EncodeNext == TcpSendPacket \/ DemoSendPacket \/ IoTSendPacket

(***************************************************************************)
(* TCPClient._receive_loop: extraction of packets from the buffer          *)
(***************************************************************************)
Sockets == 1..MaxSockets

\* the inner loop removing only payload_len bytes, forgetting the header
ParseStep_ForgetsHeader(buf) ==
    IF Len(buf) < 4 THEN [buffer |-> buf, emit |-> << >>, again |-> FALSE]
    ELSE LET packet == unpack(buf)
         IN  IF Len(buf) >= 4 + packet.payload_len
             THEN [buffer |-> Drop(buf, packet.payload_len),
                   emit |-> << packet >>, again |-> TRUE]
             ELSE [buffer |-> buf, emit |-> << >>, again |-> FALSE]

\* a faulty variant of the iteration below: the packet unpack returned is
\* appended without the test 'len(buffer) >= packet_size'
ParseStep_AppendsIncomplete(buf) ==
    IF Len(buf) < 4 THEN [buffer |-> buf, emit |-> << >>, again |-> FALSE]
    ELSE LET packet == unpack(buf)
         IN  IF packet # None
             THEN [buffer |-> Drop(buf, 4 + packet.payload_len),
                   emit |-> << packet >>, again |-> TRUE]
             ELSE [buffer |-> Drop(buf, 1), emit |-> << >>, again |-> TRUE]

\* a faulty variant of the iteration below: the loop ends after the first
\* packet it appends
ParseStep_OnePacketPerChunk(buf) ==
    IF Len(buf) < 4 THEN [buffer |-> buf, emit |-> << >>, again |-> FALSE]
    ELSE LET packet == unpack(buf)
         IN  IF packet # None
             THEN IF Len(buf) >= 4 + packet.payload_len
                  THEN [buffer |-> Drop(buf, 4 + packet.payload_len),
                        emit |-> << packet >>, again |-> FALSE]
                  ELSE [buffer |-> buf, emit |-> << >>, again |-> FALSE]
             ELSE [buffer |-> Drop(buf, 1), emit |-> << >>, again |-> TRUE]

\* one iteration of the inner 'while len(buffer) >= 4' loop: the buffer it
\* leaves, the packets it appends and whether the loop goes round again
ParseStep(buf) ==
    IF Len(buf) < 4 THEN [buffer |-> buf, emit |-> << >>, again |-> FALSE]
    ELSE LET packet == unpack(buf)
         IN  IF packet # None
             THEN IF Len(buf) >= 4 + packet.payload_len
                  THEN [buffer |-> Drop(buf, 4 + packet.payload_len),
                        emit |-> << packet >>, again |-> TRUE]
                  ELSE [buffer |-> buf, emit |-> << >>, again |-> FALSE]
             ELSE [buffer |-> Drop(buf, 1), emit |-> << >>, again |-> TRUE]

\* the whole inner loop run on one contiguous buffer
RECURSIVE ParseAll(_)
ParseAll(buf) ==
    LET r == ParseStep(buf)
    IN  IF r.again
        THEN LET rest == ParseAll(r.buffer)
             IN  [buffer |-> rest.buffer, emit |-> r.emit \o rest.emit]
        ELSE [buffer |-> r.buffer, emit |-> r.emit]

RECURSIVE Flatten(_)
Flatten(ss) == IF ss = << >> THEN << >> ELSE Head(ss) \o Flatten(Tail(ss))

PackAll(pkts) == Flatten([i \in 1..Len(pkts) |-> pack(pkts[i])])

(***************************************************************************)
(* TCPClient: state                                                        *)
(***************************************************************************)
\* TCPClient.__init__, no socket created yet
TcpFields ==
    /\ socket = 0
    /\ connected = FALSE
    /\ running = FALSE
    /\ received_packets = << >>
    /\ receive_thread = 0
    /\ sockState = [s \in Sockets |-> "none"]
    /\ inflight = [s \in Sockets |-> << >>]
    /\ wire = [s \in Sockets |-> << >>]
    /\ peerClosed = [s \in Sockets |-> FALSE]
    /\ tpc = [t \in Sockets |-> "none"]
    /\ buffer = [t \in Sockets |-> << >>]
    /\ tsock = [t \in Sockets |-> 0]
    /\ bufAtParse = [t \in Sockets |-> << >>]
    /\ lastData = [t \in Sockets |-> << >>]
    /\ emitted = [t \in Sockets |-> 0]
    /\ stream = << >>
    /\ sentPkts = << >>
    /\ corrupt = 0
    /\ wcount = 0
    /\ wresult = "none"
    /\ toDevice = [s \in Sockets |-> << >>]
    /\ wlenAtReturn = 0
    /\ scen = "none"
    /\ pingsSent = 0
    /\ tempsSent = 0

\* TCPClient(): the state after construction, the test thread about to use it
TcpInit == TcpFields /\ mpc = "idle"

\* no TCPClient constructed
TcpIdle == TcpFields /\ mpc = "off"

(***************************************************************************)
(* TCPClient._receive_loop: the steps of thread t                          *)
(***************************************************************************)
\* the local variables of a thread that has left _receive_loop are gone
ThreadEnds(t) ==
    /\ tpc' = [tpc EXCEPT ![t] = "done"]
    /\ buffer' = [buffer EXCEPT ![t] = << >>]
    /\ tsock' = [tsock EXCEPT ![t] = 0]
    /\ bufAtParse' = [bufAtParse EXCEPT ![t] = << >>]
    /\ lastData' = [lastData EXCEPT ![t] = << >>]
    /\ emitted' = [emitted EXCEPT ![t] = 0]

\* 'while self.running and self.socket'; what was observed of the last
\* pass of the inner loop is forgotten
LoopCheck(t) ==
    /\ tpc[t] = "loop"
    /\ IF running /\ socket # 0
       THEN /\ tpc' = [tpc EXCEPT ![t] = "recv"]
            /\ bufAtParse' = [bufAtParse EXCEPT ![t] = << >>]
            /\ lastData' = [lastData EXCEPT ![t] = << >>]
            /\ emitted' = [emitted EXCEPT ![t] = 0]
            /\ UNCHANGED << buffer, tsock >>
       ELSE ThreadEnds(t)
    /\ UNCHANGED << sessionVars, codecVars, demoVars, readerVars, testVars, clientVars, sockVars, peerVars >>

\* self.socket.settimeout(0.1); self.socket.recv(4096) is entered on the
\* socket self.socket names now; AttributeError when it is None
RecvCall(t) ==
    /\ tpc[t] = "recv"
    /\ IF socket = 0
       THEN ThreadEnds(t)
       ELSE /\ tpc' = [tpc EXCEPT ![t] = "inrecv"]
            /\ tsock' = [tsock EXCEPT ![t] = socket]
            /\ UNCHANGED << buffer, bufAtParse, lastData, emitted >>
    /\ UNCHANGED << sessionVars, codecVars, demoVars, readerVars, testVars, clientVars, sockVars, peerVars >>

\* recv returns data and 'buffer = data' forgets the bytes kept so far
RecvData_Overwrites(t) ==
    /\ tpc[t] = "inrecv"
    /\ sockState[tsock[t]] = "connected"
    /\ wire[tsock[t]] # << >>
    /\ buffer' = [buffer EXCEPT ![t] = wire[tsock[t]]]
    /\ bufAtParse' = [bufAtParse EXCEPT ![t] = wire[tsock[t]]]
    /\ lastData' = [lastData EXCEPT ![t] = wire[tsock[t]]]
    /\ emitted' = [emitted EXCEPT ![t] = 0]
    /\ wire' = [wire EXCEPT ![tsock[t]] = << >>]
    /\ tpc' = [tpc EXCEPT ![t] = "parse"]
    /\ tsock' = [tsock EXCEPT ![t] = 0]
    /\ UNCHANGED << sockState, inflight, peerClosed >>
    /\ UNCHANGED << sessionVars, codecVars, demoVars, readerVars, testVars, clientVars, peerVars >>

\* recv returns data: 'buffer += data', then the inner loop
RecvData(t) ==
    /\ tpc[t] = "inrecv"
    /\ sockState[tsock[t]] = "connected"
    /\ wire[tsock[t]] # << >>
    /\ buffer' = [buffer EXCEPT ![t] = @ \o wire[tsock[t]]]
    /\ bufAtParse' = [bufAtParse EXCEPT ![t] = buffer[t] \o wire[tsock[t]]]
    /\ lastData' = [lastData EXCEPT ![t] = wire[tsock[t]]]
    /\ emitted' = [emitted EXCEPT ![t] = 0]
    /\ wire' = [wire EXCEPT ![tsock[t]] = << >>]
    /\ tpc' = [tpc EXCEPT ![t] = "parse"]
    /\ tsock' = [tsock EXCEPT ![t] = 0]
    /\ UNCHANGED << sockState, inflight, peerClosed >>
    /\ UNCHANGED << sessionVars, codecVars, demoVars, readerVars, testVars, clientVars, peerVars >>

\* recv returns b"" (peer closed, nothing left to read): break
RecvEof(t) ==
    /\ tpc[t] = "inrecv"
    /\ sockState[tsock[t]] = "connected"
    /\ wire[tsock[t]] = << >>
    /\ inflight[tsock[t]] = << >>
    /\ peerClosed[tsock[t]]
    /\ ThreadEnds(t)
    /\ UNCHANGED << sessionVars, codecVars, demoVars, readerVars, testVars, clientVars, sockVars, peerVars >>

\* recv raises socket.timeout (nothing arrived in 0.1 s, or the socket was
\* closed under the blocked call): continue
RecvTimeout(t) ==
    /\ tpc[t] = "inrecv"
    /\ \/ sockState[tsock[t]] = "connected" /\ wire[tsock[t]] = << >>
       \/ sockState[tsock[t]] = "closed"
    /\ tpc' = [tpc EXCEPT ![t] = "loop"]
    /\ tsock' = [tsock EXCEPT ![t] = 0]
    /\ UNCHANGED << buffer, bufAtParse, lastData, emitted >>
    /\ UNCHANGED << sessionVars, codecVars, demoVars, readerVars, testVars, clientVars, sockVars, peerVars >>

\* recv raises OSError (socket closed, or never connected): break
RecvError(t) ==
    /\ tpc[t] = "inrecv"
    /\ sockState[tsock[t]] \in {"closed", "created"}
    /\ ThreadEnds(t)
    /\ UNCHANGED << sessionVars, codecVars, demoVars, readerVars, testVars, clientVars, sockVars, peerVars >>

\* one iteration of the inner loop
Parse(t) ==
    /\ tpc[t] = "parse"
    /\ LET r == ParseStep(buffer[t])
       IN  /\ buffer' = [buffer EXCEPT ![t] = r.buffer]
           /\ received_packets' = received_packets \o r.emit
           /\ emitted' = [emitted EXCEPT ![t] = @ + Len(r.emit)]
           /\ tpc' = [tpc EXCEPT ![t] = IF r.again THEN "parse" ELSE "loop"]
    /\ UNCHANGED << tsock, bufAtParse, lastData >>
    /\ UNCHANGED << socket, connected, running, receive_thread >>
    /\ UNCHANGED << sessionVars, codecVars, demoVars, readerVars, testVars, sockVars, peerVars >>

(***************************************************************************)
(* The network: some of the bytes in flight arrive at the socket           *)
(***************************************************************************)
Deliver(s) ==
    /\ sockState[s] = "connected"
    /\ inflight[s] # << >>
    /\ \E k \in 1..Len(inflight[s]) :
          /\ wire' = [wire EXCEPT ![s] = @ \o Take(inflight[s], k)]
          /\ inflight' = [inflight EXCEPT ![s] = Drop(@, k)]
    /\ UNCHANGED << sockState, peerClosed >>
    /\ UNCHANGED << sessionVars, codecVars, demoVars, readerVars, testVars, clientVars, threadVars, peerVars >>

(***************************************************************************)
(* Reassembly specification: a connected TCPClient whose peer has sent a   *)
(* stream of packets, possibly after one stray byte                        *)
(***************************************************************************)
StreamPackets ==
    { IoTSensePacket(PKT_ID_ACTUATOR_LED, << >>),
      IoTSensePacket(PKT_ID_SYSTEM_CONFIG, << 1 >>),
      IoTSensePacket(PKT_ID_SENSOR_TEMP, << 1, 9 >>),
      IoTSensePacket(PKT_ID_SENSOR_TEMP, << 0, 0, 1 >>) }
StrayBytes == {2}

RECURSIVE PacketSeqs(_)
PacketSeqs(n) ==
    IF n = 0 THEN { << >> }
    ELSE LET shorter == PacketSeqs(n - 1)
         IN  shorter \cup { Append(s, p) : s \in { x \in shorter : Len(x) = n - 1 },
                                           p \in StreamPackets }

\* the state after connect() returned True on socket 1
StreamInit ==
    /\ socket = 1
    /\ connected = TRUE
    /\ running = TRUE
    /\ received_packets = << >>
    /\ receive_thread = 1
    /\ sockState = [s \in Sockets |-> IF s = 1 THEN "connected" ELSE "none"]
    /\ wire = [s \in Sockets |-> << >>]
    /\ peerClosed = [s \in Sockets |-> FALSE]
    /\ tpc = [t \in Sockets |-> IF t = 1 THEN "loop" ELSE "none"]
    /\ buffer = [t \in Sockets |-> << >>]
    /\ tsock = [t \in Sockets |-> 0]
    /\ bufAtParse = [t \in Sockets |-> << >>]
    /\ lastData = [t \in Sockets |-> << >>]
    /\ emitted = [t \in Sockets |-> 0]
    /\ sentPkts \in PacketSeqs(MaxStreamPackets)
    /\ \E stray \in { << >> } \cup { << b >> : b \in StrayBytes } :
          /\ corrupt = Len(stray)
          /\ stream = stray \o PackAll(sentPkts)
    /\ inflight = [s \in Sockets |-> IF s = 1 THEN stream ELSE << >>]
    /\ mpc = "idle"
    /\ wcount = 0
    /\ wresult = "none"
    /\ toDevice = [s \in Sockets |-> << >>]
    /\ wlenAtReturn = 0
    /\ scen = "none"
    /\ pingsSent = 0
    /\ tempsSent = 0

\* a connected TCPClient whose peer has sent arbitrary bytes followed by at
\* most one packet: the bytes 0, 1 (the version) and 2, in every order
CorruptBytes == {0, 1, 2}
CorruptTails == { << >> } \cup { << p >> : p \in StreamPackets }

RECURSIVE ByteSeqs(_)
ByteSeqs(n) ==
    IF n = 0 THEN { << >> }
    ELSE LET shorter == ByteSeqs(n - 1)
         IN  shorter \cup { Append(s, b) : s \in { x \in shorter : Len(x) = n - 1 },
                                           b \in CorruptBytes }

CorruptInit ==
    /\ socket = 1
    /\ connected = TRUE
    /\ running = TRUE
    /\ received_packets = << >>
    /\ receive_thread = 1
    /\ sockState = [s \in Sockets |-> IF s = 1 THEN "connected" ELSE "none"]
    /\ wire = [s \in Sockets |-> << >>]
    /\ peerClosed = [s \in Sockets |-> FALSE]
    /\ tpc = [t \in Sockets |-> IF t = 1 THEN "loop" ELSE "none"]
    /\ buffer = [t \in Sockets |-> << >>]
    /\ tsock = [t \in Sockets |-> 0]
    /\ bufAtParse = [t \in Sockets |-> << >>]
    /\ lastData = [t \in Sockets |-> << >>]
    /\ emitted = [t \in Sockets |-> 0]
    /\ sentPkts \in CorruptTails
    /\ \E garbage \in ByteSeqs(MaxCorruptLen) :
          /\ corrupt = Len(garbage)
          /\ stream = garbage \o PackAll(sentPkts)
    /\ inflight = [s \in Sockets |-> IF s = 1 THEN stream ELSE << >>]
    /\ mpc = "idle"
    /\ wcount = 0
    /\ wresult = "none"
    /\ toDevice = [s \in Sockets |-> << >>]
    /\ wlenAtReturn = 0
    /\ scen = "none"
    /\ pingsSent = 0
    /\ tempsSent = 0

StreamNext ==
    \/ Deliver(1)
    \/ LoopCheck(1)
    \/ RecvCall(1)
    \/ RecvData(1)
    \/ RecvTimeout(1)
    \/ Parse(1)

(***************************************************************************)
(* tcp_client_demo IoTSenseClient: receive_packets and                     *)
(* receive_temperature_data, each parsing the data of one recv(1024)       *)
(***************************************************************************)
\* ScanPackets treating a stray byte as the start of a packet
ScanPackets_NoVersionCheck(data, offset) ==
    IF offset + 4 <= Len(data)
    THEN LET total_size == 4 + UnpackU16(data[offset + 3], data[offset + 4])
         IN  IF offset + total_size <= Len(data)
             THEN [packets |-> << [id |-> data[offset + 2],
                                   payload |-> SubSeq(data, offset + 5, offset + total_size),
                                   size |-> total_size] >>,
                   starts |-> << offset >>, offset |-> offset + total_size]
             ELSE [packets |-> << >>, starts |-> << >>, offset |-> offset]
    ELSE [packets |-> << >>, starts |-> << >>, offset |-> offset]

\* the 'while offset + 4 <= len(data)' loop of receive_packets from offset on:
\* the packets appended, the offsets they were found at, the final offset
RECURSIVE ScanPackets(_, _)
ScanPackets(data, offset) ==
    IF offset + 4 <= Len(data)
    THEN LET ver == data[offset + 1]
             pkt_id == data[offset + 2]
             payload_len == UnpackU16(data[offset + 3], data[offset + 4])
             total_size == 4 + payload_len
         IN  IF ver # IOTSENSE_VERSION
             THEN ScanPackets(data, offset + 1)
             ELSE IF offset + total_size <= Len(data)
                  THEN LET rest == ScanPackets(data, offset + total_size)
                           pkt == [id |-> pkt_id,
                                   payload |-> SubSeq(data, offset + 5, offset + total_size),
                                   size |-> total_size]
                       IN  [packets |-> << pkt >> \o rest.packets,
                            starts |-> << offset >> \o rest.starts,
                            offset |-> rest.offset]
                  ELSE [packets |-> << >>, starts |-> << >>, offset |-> offset]
    ELSE [packets |-> << >>, starts |-> << >>, offset |-> offset]

\* the same loop in receive_temperature_data: the number of PKT_ID_SENSOR_TEMP
\* packets counted, the offsets they were found at, the final offset
RECURSIVE ScanTemperature(_, _)
ScanTemperature(data, offset) ==
    IF offset + 4 <= Len(data)
    THEN LET ver == data[offset + 1]
             pkt_id == data[offset + 2]
             payload_len == UnpackU16(data[offset + 3], data[offset + 4])
             total_size == 4 + payload_len
         IN  IF ver # IOTSENSE_VERSION
             THEN ScanTemperature(data, offset + 1)
             ELSE IF offset + total_size <= Len(data)
                  THEN LET rest == ScanTemperature(data, offset + total_size)
                       IN  IF pkt_id = PKT_ID_SENSOR_TEMP
                           THEN [count |-> 1 + rest.count,
                                 starts |-> << offset >> \o rest.starts,
                                 offset |-> rest.offset]
                           ELSE rest
                  ELSE [count |-> 0, starts |-> << >>, offset |-> offset]
    ELSE [count |-> 0, starts |-> << >>, offset |-> offset]

\* a faulty variant of the iteration below: a complete packet is found and
\* the offset is not advanced
ScanStep_KeepsOffset(data, offset) ==
    IF offset + 4 <= Len(data)
    THEN LET ver == data[offset + 1]
             total_size == 4 + UnpackU16(data[offset + 3], data[offset + 4])
         IN  IF ver # IOTSENSE_VERSION
             THEN [offset |-> offset + 1, found |-> FALSE, id |-> -1, again |-> TRUE]
             ELSE IF offset + total_size <= Len(data)
                  THEN [offset |-> offset, found |-> TRUE, id |-> data[offset + 2],
                        again |-> TRUE]
                  ELSE [offset |-> offset, found |-> FALSE, id |-> -1, again |-> FALSE]
    ELSE [offset |-> offset, found |-> FALSE, id |-> -1, again |-> FALSE]

\* the test and one iteration of 'while offset + 4 <= len(data)' in
\* receive_packets and receive_temperature_data: the offset it leaves,
\* whether it found a complete packet at 'offset' and its id, and whether
\* the loop goes round again ('continue' and the fall-through) or ends
\* ('break' and the failed test)
ScanStep(data, offset) ==
    IF offset + 4 <= Len(data)
    THEN LET ver == data[offset + 1]
             total_size == 4 + UnpackU16(data[offset + 3], data[offset + 4])
         IN  IF ver # IOTSENSE_VERSION
             THEN [offset |-> offset + 1, found |-> FALSE, id |-> -1, again |-> TRUE]
             ELSE IF offset + total_size <= Len(data)
                  THEN [offset |-> offset + total_size, found |-> TRUE,
                        id |-> data[offset + 2], again |-> TRUE]
                  ELSE [offset |-> offset, found |-> FALSE, id |-> -1, again |-> FALSE]
    ELSE [offset |-> offset, found |-> FALSE, id |-> -1, again |-> FALSE]

\* no demo client connected
DemoIdle ==
    /\ dinflight = << >>
    /\ dwire = << >>
    /\ ddata = << >>
    /\ dlast = "none"
    /\ dpackets = << >>
    /\ dpc = "off"
    /\ dcount = 0
    /\ dstarts = << >>
    /\ doffset = 0
    /\ dstream = << >>
    /\ dall = << >>
    /\ dreadBy = {}

DemoStrays == { << >>, << 2 >>, << 0 >> }

\* the state after connect() returned True; the peer has sent a stream
DemoInit ==
    /\ \E stray \in DemoStrays, pkts \in PacketSeqs(MaxStreamPackets) :
          dinflight = stray \o PackAll(pkts)
    /\ dwire = << >>
    /\ ddata = << >>
    /\ dlast = "none"
    /\ dpackets = << >>
    /\ dpc = "idle"
    /\ dcount = 0
    /\ dstarts = << >>
    /\ doffset = 0
    /\ dstream = dinflight
    /\ dall = << >>
    /\ dreadBy = {}

\* some of the bytes in flight arrive at the socket
DemoDeliver ==
    /\ dpc \in {"idle", "temperature"}
    /\ dinflight # << >>
    /\ \E k \in 1..Len(dinflight) :
          /\ dwire' = dwire \o Take(dinflight, k)
          /\ dinflight' = Drop(dinflight, k)
    /\ UNCHANGED << ddata, dlast, dpackets, dpc, dcount, dstarts, doffset >>
    /\ UNCHANGED << dstream, dall, dreadBy >>
    /\ UNCHANGED << sessionVars, codecVars, tcpVars, readerVars >>

\* receive_packets(timeout): one recv(1024) and the scan of its data;
\* socket.timeout (nothing arrived) returns the empty list
DemoReceivePackets ==
    /\ dpc = "idle"
    /\ LET data == Take(dwire, 1024)
           r == ScanPackets(data, 0)
       IN  /\ ddata' = data
           /\ dwire' = Drop(dwire, 1024)
           /\ dpackets' = r.packets
           /\ dstarts' = r.starts
           /\ doffset' = r.offset
           /\ dall' = dall \o r.packets
           /\ dreadBy' = IF data = << >> THEN dreadBy ELSE dreadBy \cup {"receive_packets"}
    /\ dlast' = "receive_packets"
    /\ UNCHANGED << dinflight, dpc, dcount >>
    /\ UNCHANGED dstream
    /\ UNCHANGED << sessionVars, codecVars, tcpVars, readerVars >>

\* receive_temperature_data(duration): count = 0, settimeout(0.2)
DemoTemperatureStart ==
    /\ dpc = "idle"
    /\ dpc' = "temperature"
    /\ dcount' = 0
    /\ ddata' = << >>
    /\ dlast' = "none"
    /\ dstarts' = << >>
    /\ doffset' = 0
    /\ UNCHANGED << dinflight, dwire, dpackets >>
    /\ UNCHANGED << dstream, dall, dreadBy >>
    /\ UNCHANGED << sessionVars, codecVars, tcpVars, readerVars >>

\* one iteration of its 'while time.time() - start < duration' loop
DemoTemperatureRecv ==
    /\ dpc = "temperature"
    /\ LET data == Take(dwire, 1024)
           r == ScanTemperature(data, 0)
       IN  /\ ddata' = data
           /\ dwire' = Drop(dwire, 1024)
           /\ dcount' = dcount + r.count
           /\ dstarts' = r.starts
           /\ doffset' = r.offset
           /\ dreadBy' = IF data = << >> THEN dreadBy ELSE dreadBy \cup {"temperature"}
    /\ dlast' = "temperature"
    /\ UNCHANGED << dinflight, dpackets, dpc >>
    /\ UNCHANGED << dstream, dall >>
    /\ UNCHANGED << sessionVars, codecVars, tcpVars, readerVars >>

\* the duration has elapsed: return count
DemoTemperatureReturn ==
    /\ dpc = "temperature"
    /\ dpc' = "idle"
    /\ UNCHANGED << dinflight, dwire, ddata, dlast, dpackets, dcount, dstarts, doffset >>
    /\ UNCHANGED << dstream, dall, dreadBy >>
    /\ UNCHANGED << sessionVars, codecVars, tcpVars, readerVars >>

\* the demo client connected, arbitrary bytes followed by at most one packet
\* have arrived at its socket
DemoScanInit ==
    /\ \E garbage \in ByteSeqs(MaxCorruptLen), pkts \in CorruptTails :
          dwire = garbage \o PackAll(pkts)
    /\ dinflight = << >>
    /\ ddata = << >>
    /\ dlast = "none"
    /\ dpackets = << >>
    /\ dpc = "idle"
    /\ dcount = 0
    /\ dstarts = << >>
    /\ doffset = 0
    /\ dstream = dwire
    /\ dall = << >>
    /\ dreadBy = {}

\* receive_packets or receive_temperature_data: recv(1024) returned data,
\* offset = 0, the loop is about to be tested
DemoScanRecv ==
    /\ dpc = "idle"
    /\ dwire # << >>
    /\ \E method \in {"receive_packets", "temperature"} :
          /\ dlast' = method
          /\ dreadBy' = dreadBy \cup {method}
    /\ ddata' = Take(dwire, 1024)
    /\ dwire' = Drop(dwire, 1024)
    /\ doffset' = 0
    /\ dpackets' = << >>
    /\ dstarts' = << >>
    /\ dcount' = 0
    /\ dpc' = "scan"
    /\ UNCHANGED << dinflight, dstream, dall >>
    /\ UNCHANGED << sessionVars, codecVars, tcpVars, readerVars >>

\* the test and one iteration of the loop over the data
DemoScanStep ==
    /\ dpc = "scan"
    /\ LET r == ScanStep(ddata, doffset)
           pkt == [id |-> r.id,
                   payload |-> SubSeq(ddata, doffset + 5, r.offset),
                   size |-> r.offset - doffset]
       IN  /\ doffset' = r.offset
           /\ dpc' = IF r.again THEN "scan" ELSE "idle"
           /\ IF r.found
              THEN /\ dstarts' = Append(dstarts, doffset)
                   /\ IF dlast = "receive_packets"
                      THEN /\ dpackets' = Append(dpackets, pkt)
                           /\ dall' = Append(dall, pkt)
                           /\ UNCHANGED dcount
                      ELSE /\ dcount' = IF r.id = PKT_ID_SENSOR_TEMP THEN dcount + 1 ELSE dcount
                           /\ UNCHANGED << dpackets, dall >>
              ELSE UNCHANGED << dstarts, dpackets, dall, dcount >>
    /\ UNCHANGED << dinflight, dwire, ddata, dlast, dstream, dreadBy >>
    /\ UNCHANGED << sessionVars, codecVars, tcpVars, readerVars >>

DemoNext ==
    \/ DemoDeliver
    \/ DemoReceivePackets
    \/ DemoTemperatureStart
    \/ DemoTemperatureRecv
    \/ DemoTemperatureReturn

(***************************************************************************)
(* Blocking stream readers: SampleClient (flow), PacketClient              *)
(* (packet_routing) with the extended 14-byte header, and the tools        *)
(* IoTSenseClient with the simplified 4-byte header                        *)
(***************************************************************************)
HEADER_SIZE == 14

\* little-endian byte string of n bytes for the unsigned integer v
RECURSIVE PackLE(_, _)
PackLE(v, n) == IF n = 0 THEN << >> ELSE << v % 256 >> \o PackLE(v \div 256, n - 1)

\* A 64-bit unsigned integer is kept as its four 16-bit limbs, least
\* significant first: its value is w[1] + 2^16 w[2] + 2^32 w[3] + 2^48 w[4]
U64(v) == << v % 65536, v \div 65536, 0, 0 >>

\* struct 'Q' little-endian: 8 bytes to a 64-bit unsigned integer and back
UnpackU64(b) == [i \in 1..4 |-> UnpackU16(b[2 * i - 1], b[2 * i])]
PackU64(w) == PackU16(w[1]) \o PackU16(w[2]) \o PackU16(w[3]) \o PackU16(w[4])

SensorPacket(packet_id, counter, timestamp_ns, payload) ==
    [packet_id |-> packet_id, counter |-> counter, timestamp_ns |-> timestamp_ns,
     content_length |-> Len(payload), payload |-> payload]

\* a faulty variant of the header decoding below: counter read big-endian
UnpackSensorHeader_BigEndianCounter(header) ==
    [packet_id |-> header[1],
     counter |-> UnpackU16(header[4], header[3]),
     content_length |-> UnpackU16(header[5], header[6]),
     timestamp_ns |-> UnpackU64(SubSeq(header, 7, 14))]

\* struct.unpack("<BBHHQ", header): packet_id, reserved, counter,
\* content_length, timestamp_ns
UnpackSensorHeader(header) ==
    [packet_id |-> header[1],
     counter |-> UnpackU16(header[3], header[4]),
     content_length |-> UnpackU16(header[5], header[6]),
     timestamp_ns |-> UnpackU64(SubSeq(header, 7, 14))]

\* the wire bytes of an extended-header packet, as the header is unpacked
SensorWire(p) ==
    << p.packet_id, 0 >> \o PackU16(p.counter) \o PackU16(p.content_length)
        \o PackU64(p.timestamp_ns) \o p.payload

\* receive_packet returning None (SampleClient, PacketClient)
SensorNone ==
    [packet_id |-> -1, counter |-> -1, timestamp_ns |-> << >>, content_length |-> -1,
     payload |-> << >>]

\* receive_packet returning (None, None) (tools IoTSenseClient)
IoTNone == [packet_id |-> -1, payload |-> << >>]

ExtendedClients == {"SampleClient", "PacketClient"}
ReaderClients == ExtendedClients \cup {"IoTSenseClient"}

\* the packets the peers send unsolicited
SensorPackets ==
    { SensorPacket(1, 5, U64(1000), << 7 >>),
      SensorPacket(2, 258, U64(70000), << 1, 2 >>),
      SensorPacket(1, 0, U64(0), << >>) }
TempPackets ==
    { IoTSensePacket(PKT_ID_SENSOR_TEMP, << 1, 9 >>),
      IoTSensePacket(PKT_ID_SENSOR_TEMP, << >>) }
PingSeqs == {1, 4660}

\* ping_resp: command, seq_num, timestamp ('<BHI')
Pong(seq) == IoTSensePacket(PKT_ID_SYSTEM_CONFIG, << PING_CMD >> \o PackU16(seq) \o PackLE(77, 4))

\* SampleClient.__init__: timeout: float = 5.0, set on the socket by connect()
SampleTimeout == 5

\* the timeout None: of a socket in blocking mode, and of the timeout
\* argument of receive_packets left at its default
NoTimeout == -1

\* no blocking reader connected
ReaderIdle ==
    /\ rclient = "none"
    /\ rinflight = << >>
    /\ rwire = << >>
    /\ rpc = "off"
    /\ rdata = << >>
    /\ rhdr = SensorNone
    /\ rlast = SensorNone
    /\ rcaller = "none"
    /\ ppc = "off"
    /\ pingSeq = 0
    /\ pingResult = "none"
    /\ rsentLog = << >>
    /\ rtotal = 0
    /\ rconsumed = 0
    /\ rcallStart = 0
    /\ rreturned = << >>
    /\ rwhy = "none"
    /\ pingWhy = "none"
    /\ rclosed = FALSE
    /\ bpc = "off"
    /\ bcount = 0
    /\ bpackets = << >>
    /\ bnow = -1
    /\ rblocked = -1
    /\ sampling = FALSE
    /\ devTaken = 0
    /\ bquiet = FALSE
    /\ packet_count = 0
    /\ bytes_received = 0
    /\ rsockTimeout = SampleTimeout
    /\ old_timeout = NoTimeout

\* the state after the client connected
ReaderConnected ==
    /\ rclient \in ReaderClients
    /\ rinflight = << >>
    /\ rwire = << >>
    /\ rpc = "idle"
    /\ rdata = << >>
    /\ rhdr = SensorNone
    /\ rlast = IF rclient = "IoTSenseClient" THEN IoTNone ELSE SensorNone
    /\ rcaller = "none"
    /\ ppc = "idle"
    /\ pingSeq = 0
    /\ pingResult = "none"
    /\ rsentLog = << >>
    /\ rtotal = 0
    /\ rconsumed = 0
    /\ rcallStart = 0
    /\ rreturned = << >>
    /\ rwhy = "none"
    /\ pingWhy = "none"
    /\ rclosed = FALSE
    /\ bpc = "off"
    /\ bcount = 0
    /\ bpackets = << >>
    /\ devTaken = 0
    /\ bquiet = FALSE
    /\ packet_count = 0
    /\ bytes_received = 0
    /\ old_timeout = NoTimeout

\* a connected client whose peer sends unsolicited packets whatever commands
\* it got; time is not observed
ReaderInit ==
    /\ ReaderConnected
    /\ rsockTimeout = SampleTimeout
    /\ bnow = -1
    /\ rblocked = -1
    /\ sampling = FALSE

\* the peer writes the bytes of packet 'pkt', which the client should return as 'value'
PeerWrites(bytes, value) ==
    /\ rinflight' = rinflight \o bytes
    /\ rsentLog' = Append(rsentLog, [at |-> rtotal, pkt |-> value])
    /\ rtotal' = rtotal + Len(bytes)

\* the device streams a sensor packet (extended header)
PeerSendSensor ==
    /\ rclient \in ExtendedClients
    /\ ~rclosed
    /\ Len(rsentLog) < MaxPeerSends
    /\ \E p \in SensorPackets : PeerWrites(SensorWire(p), p)
    /\ UNCHANGED << timeVars, counterVars, timeoutVars, samplingVars, rclosed, batchVars, rclient, rwire, rpc, rdata, rhdr, rlast, rcaller, ppc, pingSeq,
                    pingResult, rconsumed, rcallStart, rreturned, rwhy, pingWhy >>
    /\ UNCHANGED << sessionVars, codecVars, tcpVars, demoVars >>

\* the device streams a temperature packet (simplified header)
PeerSendTemp ==
    /\ rclient = "IoTSenseClient"
    /\ Len(rsentLog) < MaxPeerSends
    /\ \E p \in TempPackets : PeerWrites(pack(p), [packet_id |-> p.packet_id, payload |-> p.payload])
    /\ UNCHANGED << timeVars, counterVars, timeoutVars, samplingVars, rclosed, batchVars, rclient, rwire, rpc, rdata, rhdr, rlast, rcaller, ppc, pingSeq,
                    pingResult, rconsumed, rcallStart, rreturned, rwhy, pingWhy >>
    /\ UNCHANGED << sessionVars, codecVars, tcpVars, demoVars >>

\* the device answers the ping with a PONG carrying its sequence number
PeerPong ==
    /\ rclient = "IoTSenseClient"
    /\ ppc = "sent"
    /\ PeerWrites(pack(Pong(pingSeq)),
                  [packet_id |-> PKT_ID_SYSTEM_CONFIG, payload |-> Pong(pingSeq).payload])
    /\ ppc' = "answered"
    /\ UNCHANGED << timeVars, counterVars, timeoutVars, samplingVars, rclosed, batchVars, rclient, rwire, rpc, rdata, rhdr, rlast, rcaller, pingSeq,
                    pingResult, rconsumed, rcallStart, rreturned, rwhy, pingWhy >>
    /\ UNCHANGED << sessionVars, codecVars, tcpVars, demoVars >>

\* some of the bytes in flight arrive at the socket
ReaderDeliver ==
    /\ rinflight # << >>
    /\ \E k \in 1..Len(rinflight) :
          /\ rwire' = rwire \o Take(rinflight, k)
          /\ rinflight' = Drop(rinflight, k)
    /\ UNCHANGED << timeVars, counterVars, timeoutVars, samplingVars, rclosed, batchVars, rclient, rpc, rdata, rhdr, rlast, rcaller, ppc, pingSeq, pingResult,
                    rsentLog, rtotal, rconsumed, rcallStart, rreturned, rwhy, pingWhy >>
    /\ UNCHANGED << sessionVars, codecVars, tcpVars, demoVars >>

\* ping(): the check of the response, lines 104-111
PingOutcome(packet_id, resp, seq_num) ==
    IF packet_id = PKT_ID_SYSTEM_CONFIG /\ resp # << >>
    THEN IF Len(resp) < 7 THEN "struct.error"
         ELSE IF resp[1] = PING_CMD /\ UnpackU16(resp[2], resp[3]) = seq_num
              THEN "True" ELSE "False"
    ELSE "False"

\* receive_packet returns 'value' because of 'why' (a complete "packet", an
\* "empty" payload, a "timeout", an "eof"); when ping called it, ping returns too
ReaderReturns(value, why) ==
    /\ rpc' = "idle"
    /\ rdata' = << >>
    /\ rlast' = value
    /\ rwhy' = why
    /\ rreturned' = IF why = "packet" THEN Append(rreturned, [at |-> rcallStart, pkt |-> value])
                    ELSE rreturned
    /\ rcaller' = "none"
    /\ IF rcaller = "ping"
       THEN /\ ppc' = "done"
            /\ pingResult' = PingOutcome(value.packet_id, value.payload, pingSeq)
            /\ pingWhy' = why
       ELSE UNCHANGED << ppc, pingResult, pingWhy >>

\* receive_packet is entered: _recv_exact of the header starts
ReaderCalls(caller) ==
    /\ rpc' = "header"
    /\ rdata' = << >>
    /\ rcallStart' = rconsumed
    /\ rcaller' = caller

\* sock.recv(n - len(data)) returns what has arrived, at most that many bytes
RecvChunk(n) == Take(rwire, n - Len(rdata))

\* the timeout argument of receive_packets, in ticks of the clock
BatchTimeout == 2

\* a sock.recv has returned or raised: the next recv may block for the whole
\* timeout of the socket again
RecvOver ==
    /\ rblocked' = IF rblocked = -1 THEN -1 ELSE 0
    /\ UNCHANGED bnow

\* sock.recv raises socket.timeout when it has blocked for the timeout of the socket
RecvTimedOut == rblocked \in {-1, BatchTimeout}

\* a tick of the clock passes while sock.recv blocks with nothing to read
RecvBlocks ==
    /\ rblocked \in 0..(BatchTimeout - 1)
    /\ bpc = "calling"
    /\ rpc \in {"header", "payload"}
    /\ rwire = << >>
    /\ rblocked' = rblocked + 1
    /\ bnow' = IF bnow > BatchTimeout + 1 THEN bnow ELSE bnow + 1
    /\ UNCHANGED << counterVars, timeoutVars, samplingVars, rclosed, batchVars, rclient, rinflight, rwire, rpc, rdata, rhdr,
                    rlast, rcaller, ppc, pingSeq, pingResult, rsentLog, rtotal, rconsumed,
                    rcallStart, rreturned, rwhy, pingWhy >>
    /\ UNCHANGED << sessionVars, codecVars, tcpVars, demoVars >>

\* -------- SampleClient --------
SampleReceivePacket ==
    /\ rclient = "SampleClient"
    /\ rpc = "idle"
    /\ bpc # "calling"
    /\ ReaderCalls("test")
    /\ UNCHANGED << timeVars, counterVars, timeoutVars, samplingVars, rclosed, batchVars, rclient, rinflight, rwire, rhdr, rlast, ppc, pingSeq, pingResult,
                    rsentLog, rtotal, rconsumed, rreturned, rwhy, pingWhy >>
    /\ UNCHANGED << sessionVars, codecVars, tcpVars, demoVars >>

\* a faulty variant of receive_packet below: the counters are updated when the
\* header has been read
SampleRecvExact_CountsAtHeader ==
    /\ rclient = "SampleClient"
    /\ rpc \in {"header", "payload"}
    /\ rwire # << >>
    /\ LET n == IF rpc = "header" THEN 14 ELSE rhdr.content_length
           chunk == RecvChunk(n)
           data == rdata \o chunk
       IN  /\ rwire' = Drop(rwire, Len(chunk))
           /\ rconsumed' = rconsumed + Len(chunk)
           /\ IF Len(data) < n
              THEN /\ rdata' = data
                   /\ UNCHANGED << rpc, rhdr, rlast, rreturned, rcaller, ppc, pingResult, rwhy, pingWhy >>
                   /\ UNCHANGED counterVars
              ELSE IF rpc = "header"
                   THEN LET h == UnpackSensorHeader(data)
                        IN  /\ rhdr' = h
                            /\ IF h.content_length = 0
                               THEN ReaderReturns(SensorNone, "empty")
                               ELSE /\ rpc' = "payload"
                                    /\ rdata' = << >>
                                    /\ UNCHANGED << rlast, rreturned, rcaller, ppc, pingResult, rwhy, pingWhy >>
                            /\ packet_count' = packet_count + 1
                            /\ bytes_received' = bytes_received + 14 + h.content_length
                   ELSE /\ ReaderReturns([packet_id |-> rhdr.packet_id, counter |-> rhdr.counter,
                                          timestamp_ns |-> rhdr.timestamp_ns,
                                          content_length |-> rhdr.content_length,
                                          payload |-> data], "packet")
                        /\ UNCHANGED counterVars
                        /\ UNCHANGED rhdr
    /\ RecvOver
    /\ UNCHANGED << timeoutVars, samplingVars, rclosed, batchVars, rclient, rinflight, pingSeq, rsentLog, rtotal, rcallStart >>
    /\ UNCHANGED << sessionVars, codecVars, tcpVars, demoVars >>

\* _recv_exact: a recv returns data; when the n bytes are complete
\* receive_packet goes on (header unpacked, payload read, packet returned)
\* and the counters updated just before the packet is returned
SampleRecvExact ==
    /\ rclient = "SampleClient"
    /\ rpc \in {"header", "payload"}
    /\ rwire # << >>
    /\ LET n == IF rpc = "header" THEN 14 ELSE rhdr.content_length
           chunk == RecvChunk(n)
           data == rdata \o chunk
       IN  /\ rwire' = Drop(rwire, Len(chunk))
           /\ rconsumed' = rconsumed + Len(chunk)
           /\ IF Len(data) < n
              THEN /\ rdata' = data
                   /\ UNCHANGED << rpc, rhdr, rlast, rreturned, rcaller, ppc, pingResult, rwhy, pingWhy >>
                   /\ UNCHANGED counterVars
              ELSE IF rpc = "header"
                   THEN LET h == UnpackSensorHeader(data)
                        IN  /\ rhdr' = h
                            /\ IF h.content_length = 0
                               THEN ReaderReturns(SensorNone, "empty")
                               ELSE /\ rpc' = "payload"
                                    /\ rdata' = << >>
                                    /\ UNCHANGED << rlast, rreturned, rcaller, ppc, pingResult, rwhy, pingWhy >>
                            /\ UNCHANGED counterVars
                   ELSE /\ ReaderReturns([packet_id |-> rhdr.packet_id, counter |-> rhdr.counter,
                                          timestamp_ns |-> rhdr.timestamp_ns,
                                          content_length |-> rhdr.content_length,
                                          payload |-> data], "packet")
                        /\ packet_count' = packet_count + 1
                        /\ bytes_received' = bytes_received + 14 + rhdr.content_length
                        /\ UNCHANGED rhdr
    /\ RecvOver
    /\ UNCHANGED << timeoutVars, samplingVars, rclosed, batchVars, rclient, rinflight, pingSeq, rsentLog, rtotal, rcallStart >>
    /\ UNCHANGED << sessionVars, codecVars, tcpVars, demoVars >>

\* _recv_exact: a recv raises socket.timeout, the bytes in 'data' are dropped
\* and receive_packet returns None
SampleRecvTimeout ==
    /\ rclient = "SampleClient"
    /\ rpc \in {"header", "payload"}
    /\ rwire = << >>
    /\ ~rclosed \/ rinflight # << >>
    /\ rsockTimeout # NoTimeout
    /\ RecvTimedOut
    /\ ReaderReturns(SensorNone, "timeout")
    /\ RecvOver
    /\ UNCHANGED << counterVars, timeoutVars, samplingVars, rclosed, batchVars, rclient, rinflight, rwire, rhdr, pingSeq, rsentLog, rtotal, rconsumed,
                    rcallStart >>
    /\ UNCHANGED << sessionVars, codecVars, tcpVars, demoVars >>

\* the server closes the connection to the SampleClient; the bytes of its
\* last packet that it had not written yet are never sent
PeerCloses ==
    /\ rclient = "SampleClient"
    /\ ~rclosed
    /\ rclosed' = TRUE
    /\ \E k \in 0..Len(rinflight) : rinflight' = Take(rinflight, k)
    /\ UNCHANGED << timeVars, counterVars, timeoutVars, samplingVars, batchVars, rclient, rwire, rpc, rdata, rhdr, rlast, rcaller, ppc, pingSeq,
                    pingResult, rsentLog, rtotal, rconsumed, rcallStart, rreturned, rwhy,
                    pingWhy >>
    /\ UNCHANGED << sessionVars, codecVars, tcpVars, demoVars >>

\* _recv_exact: recv returns b"" (closed by the peer, nothing left to read):
\* return None, and receive_packet returns None
SampleRecvEof ==
    /\ rclient = "SampleClient"
    /\ rpc \in {"header", "payload"}
    /\ rwire = << >>
    /\ rinflight = << >>
    /\ rclosed
    /\ ReaderReturns(SensorNone, "eof")
    /\ UNCHANGED << timeVars, counterVars, timeoutVars, samplingVars, rclosed, batchVars, rclient, rinflight, rwire, rhdr, pingSeq, rsentLog,
                    rtotal, rconsumed, rcallStart >>
    /\ UNCHANGED << sessionVars, codecVars, tcpVars, demoVars >>

\* -------- PacketClient --------
PacketReceivePacket ==
    /\ rclient = "PacketClient"
    /\ rpc = "idle"
    /\ bpc # "calling"
    /\ ReaderCalls("test")
    /\ UNCHANGED << timeVars, counterVars, timeoutVars, samplingVars, rclosed, batchVars, rclient, rinflight, rwire, rhdr, rlast, ppc, pingSeq, pingResult,
                    rsentLog, rtotal, rconsumed, rreturned, rwhy, pingWhy >>
    /\ UNCHANGED << sessionVars, codecVars, tcpVars, demoVars >>

PacketRecvExact ==
    /\ rclient = "PacketClient"
    /\ rpc \in {"header", "payload"}
    /\ rwire # << >>
    /\ LET n == IF rpc = "header" THEN HEADER_SIZE ELSE rhdr.content_length
           chunk == RecvChunk(n)
           data == rdata \o chunk
       IN  /\ rwire' = Drop(rwire, Len(chunk))
           /\ rconsumed' = rconsumed + Len(chunk)
           /\ IF Len(data) < n
              THEN /\ rdata' = data
                   /\ UNCHANGED << rpc, rhdr, rlast, rreturned, rcaller, ppc, pingResult, rwhy, pingWhy >>
              ELSE IF rpc = "header"
                   THEN LET h == UnpackSensorHeader(data)
                        IN  /\ rhdr' = h
                            /\ IF h.content_length = 0
                               THEN ReaderReturns(SensorNone, "empty")
                               ELSE /\ rpc' = "payload"
                                    /\ rdata' = << >>
                                    /\ UNCHANGED << rlast, rreturned, rcaller, ppc, pingResult, rwhy, pingWhy >>
                   ELSE /\ ReaderReturns([packet_id |-> rhdr.packet_id, counter |-> rhdr.counter,
                                          timestamp_ns |-> rhdr.timestamp_ns,
                                          content_length |-> rhdr.content_length,
                                          payload |-> data], "packet")
                        /\ UNCHANGED rhdr
    /\ RecvOver
    /\ UNCHANGED << counterVars, timeoutVars, samplingVars, rclosed, batchVars, rclient, rinflight, pingSeq, rsentLog, rtotal, rcallStart >>
    /\ UNCHANGED << sessionVars, codecVars, tcpVars, demoVars >>

PacketRecvTimeout ==
    /\ rclient = "PacketClient"
    /\ rpc \in {"header", "payload"}
    /\ rwire = << >>
    /\ RecvTimedOut
    /\ ReaderReturns(SensorNone, "timeout")
    /\ RecvOver
    /\ UNCHANGED << counterVars, timeoutVars, samplingVars, rclosed, batchVars, rclient, rinflight, rwire, rhdr, pingSeq, rsentLog, rtotal, rconsumed,
                    rcallStart >>
    /\ UNCHANGED << sessionVars, codecVars, tcpVars, demoVars >>

\* -------- receive_packets of SampleClient and PacketClient --------
\* the largest count argument of receive_packets
MaxCount == 2

\* the count arguments of receive_packets
BatchCounts == 1..MaxCount

\* receive_packets(count, timeout): packets = [], the first iteration of
\* 'for _ in range(count)' calls receive_packet. SampleClient saves
\* old_timeout = self.sock.gettimeout() and sets the timeout on the socket
\* 'if timeout is not None'
BatchStartWith(timeout) ==
    /\ rclient \in ExtendedClients
    /\ rpc = "idle"
    /\ bpc # "calling"
    /\ \E count \in BatchCounts : bcount' = count
    /\ IF rclient = "SampleClient"
       THEN /\ old_timeout' = rsockTimeout
            /\ rsockTimeout' = IF timeout # NoTimeout THEN timeout ELSE rsockTimeout
       ELSE UNCHANGED timeoutVars
    /\ bpc' = "calling"
    /\ bpackets' = << >>
    /\ ReaderCalls("batch")
    /\ bnow' = IF bnow = -1 THEN -1 ELSE 0
    /\ rblocked' = IF rblocked = -1 THEN -1 ELSE 0
    /\ bquiet' = (s_sent # << >> /\ s_sent[Len(s_sent)] = CMD_STOP_SAMPLING
                     /\ devTaken = Len(s_sent) /\ ~sampling)
    /\ UNCHANGED << counterVars, sampling, devTaken, rclosed, rclient, rinflight, rwire, rhdr, rlast, ppc, pingSeq, pingResult,
                    rsentLog, rtotal, rconsumed, rreturned, rwhy, pingWhy >>
    /\ UNCHANGED << sessionVars, codecVars, tcpVars, demoVars >>

\* receive_packets(count, timeout) called with a timeout
BatchStart == BatchStartWith(BatchTimeout)

\* receive_packets(count): the timeout argument is left at None
BatchStartNoTimeout == BatchStartWith(NoTimeout)

\* finally: 'if old_timeout is not None and self.sock:
\* self.sock.settimeout(old_timeout)'
RestoredTimeout == IF old_timeout # NoTimeout THEN old_timeout ELSE rsockTimeout

\* its receive_packet call has returned: 'if packet is None: break', else
\* the packet is appended and the next iteration calls receive_packet, or
\* the loop is over; then 'return packets'
BatchCollect ==
    /\ bpc = "calling"
    /\ rpc = "idle"
    /\ IF rlast = SensorNone
       THEN /\ bpc' = "broke"
            /\ UNCHANGED << bpackets, rpc, rdata, rcallStart, rcaller >>
       ELSE LET packets == Append(bpackets, [at |-> rcallStart, pkt |-> rlast])
            IN  /\ bpackets' = packets
                /\ IF Len(packets) = bcount
                   THEN /\ bpc' = "returned"
                        /\ UNCHANGED << rpc, rdata, rcallStart, rcaller >>
                   ELSE /\ ReaderCalls("batch")
                        /\ UNCHANGED bpc
    /\ rsockTimeout' = IF rclient = "SampleClient" /\ bpc' \in {"broke", "returned"}
                       THEN RestoredTimeout ELSE rsockTimeout
    /\ UNCHANGED << old_timeout, timeVars, counterVars, samplingVars, rclosed, bcount, rclient, rinflight, rwire, rhdr, rlast, ppc, pingSeq,
                    pingResult, rsentLog, rtotal, rconsumed, rreturned, rwhy, pingWhy >>
    /\ UNCHANGED << sessionVars, codecVars, tcpVars, demoVars >>

\* -------- the device of a SampleClient / PacketClient --------
\* number of packets the device streams while it is sampling
MaxSamples == 1

\* the device streams a sensor packet while it is sampling
DeviceStreams ==
    /\ sampling
    /\ Len(rsentLog) < MaxSamples
    /\ PeerSendSensor

\* -------- tools IoTSenseClient --------
IoTReceivePacket ==
    /\ rclient = "IoTSenseClient"
    /\ rpc = "idle"
    /\ ppc \in {"idle", "done"}
    /\ ReaderCalls("test")
    /\ UNCHANGED << timeVars, counterVars, timeoutVars, samplingVars, rclosed, batchVars, rclient, rinflight, rwire, rhdr, rlast, ppc, pingSeq, pingResult,
                    rsentLog, rtotal, rconsumed, rreturned, rwhy, pingWhy >>
    /\ UNCHANGED << sessionVars, codecVars, tcpVars, demoVars >>

\* ping(seq_num): send_packet(PKT_ID_SYSTEM_CONFIG, ...) then receive_packet()
IoTPing ==
    /\ rclient = "IoTSenseClient"
    /\ rpc = "idle"
    /\ ppc = "idle"
    /\ \E seq \in PingSeqs : pingSeq' = seq
    /\ ppc' = "sent"
    /\ pingResult' = "none"
    /\ ReaderCalls("ping")
    /\ UNCHANGED << timeVars, counterVars, timeoutVars, samplingVars, rclosed, batchVars, rclient, rinflight, rwire, rhdr, rlast, rsentLog, rtotal, rconsumed,
                    rreturned, rwhy, pingWhy >>
    /\ UNCHANGED << sessionVars, codecVars, tcpVars, demoVars >>

\* _recv_exact: a recv returns data; when the bytes are complete
\* receive_packet goes on (header unpacked, payload read unless length is 0)
IoTRecvExact ==
    /\ rclient = "IoTSenseClient"
    /\ rpc \in {"header", "payload"}
    /\ rwire # << >>
    /\ LET n == IF rpc = "header" THEN 4 ELSE rhdr.content_length
           chunk == RecvChunk(n)
           data == rdata \o chunk
       IN  /\ rwire' = Drop(rwire, Len(chunk))
           /\ rconsumed' = rconsumed + Len(chunk)
           /\ IF Len(data) < n
              THEN /\ rdata' = data
                   /\ UNCHANGED << rpc, rhdr, rlast, rreturned, rcaller, ppc, pingResult, rwhy, pingWhy >>
              ELSE IF rpc = "header"
                   THEN LET length == UnpackU16(data[3], data[4])
                        IN  /\ rhdr' = [SensorNone EXCEPT !.packet_id = data[2],
                                                          !.content_length = length]
                            /\ IF length > 0
                               THEN /\ rpc' = "payload"
                                    /\ rdata' = << >>
                                    /\ UNCHANGED << rlast, rreturned, rcaller, ppc, pingResult, rwhy, pingWhy >>
                               ELSE ReaderReturns([packet_id |-> data[2], payload |-> << >>], "packet")
                   ELSE /\ ReaderReturns([packet_id |-> rhdr.packet_id, payload |-> data], "packet")
                        /\ UNCHANGED rhdr
    /\ UNCHANGED << timeVars, counterVars, timeoutVars, samplingVars, rclosed, batchVars, rclient, rinflight, pingSeq, rsentLog, rtotal, rcallStart >>
    /\ UNCHANGED << sessionVars, codecVars, tcpVars, demoVars >>

\* a recv inside _recv_exact raises socket.timeout: the bytes in 'data' are
\* dropped and receive_packet returns (None, None)
IoTRecvTimeout ==
    /\ rclient = "IoTSenseClient"
    /\ rpc \in {"header", "payload"}
    /\ rwire = << >>
    /\ ReaderReturns(IoTNone, "timeout")
    /\ UNCHANGED << timeVars, counterVars, timeoutVars, samplingVars, rclosed, batchVars, rclient, rinflight, rwire, rhdr, pingSeq, rsentLog, rtotal, rconsumed,
                    rcallStart >>
    /\ UNCHANGED << sessionVars, codecVars, tcpVars, demoVars >>

ReaderNext ==
    \/ PeerSendSensor
    \/ PeerSendTemp
    \/ PeerPong
    \/ ReaderDeliver
    \/ SampleReceivePacket
    \/ SampleRecvExact
    \/ SampleRecvTimeout
    \/ PacketReceivePacket
    \/ PacketRecvExact
    \/ PacketRecvTimeout
    \/ IoTReceivePacket
    \/ IoTPing
    \/ IoTRecvExact
    \/ IoTRecvTimeout

(***************************************************************************)
(* TCPClient used by a test thread while its receive threads run, against  *)
(* a device that streams temperature packets and answers pings             *)
(***************************************************************************)
\* the sequence number of the test's ping (0x1234)
TestPingSeq == 4660
\* the count arguments of wait_for_packets
WaitCounts == {1, 2}
\* the temperature packet the device streams (temperature, humidity: '<HH')
TcpTemp == IoTSensePacket(PKT_ID_SENSOR_TEMP, PackU16(2500) \o PackU16(5000))

\* the test thread goes on: the result of the last wait_for_packets is dropped
WaitForgotten ==
    /\ wcount' = 0
    /\ wresult' = "none"
    /\ wlenAtReturn' = 0
    /\ closerPc' = "none"

SocketsCreated == Cardinality({ s \in Sockets : sockState[s] # "none" })

\* connect(): socket.socket(), self.socket = it, settimeout
ConnectBegin ==
    /\ mpc = "idle"
    /\ SocketsCreated < MaxSockets
    /\ socket' = SocketsCreated + 1
    /\ sockState' = [sockState EXCEPT ![SocketsCreated + 1] = "created"]
    /\ mpc' = "connecting"
    /\ scen' = "none"
    /\ UNCHANGED << connected, running, received_packets, receive_thread >>
    /\ UNCHANGED << inflight, wire, peerClosed >>
    /\ WaitForgotten
    /\ UNCHANGED << toDevice, pingsSent, tempsSent >>
    /\ UNCHANGED << sendResult, sclient, sampleVars, udpVars, fixtureVars >>
    /\ UNCHANGED << codecVars, demoVars, readerVars, threadVars, peerVars >>

\* connect(): socket.connect succeeds, connected = running = True, the
\* receive thread is created and started, return True
ConnectOk ==
    /\ mpc = "connecting"
    /\ sockState' = [sockState EXCEPT ![socket] = "connected"]
    /\ connected' = TRUE
    /\ running' = TRUE
    /\ receive_thread' = socket
    /\ tpc' = [tpc EXCEPT ![socket] = "loop"]
    /\ mpc' = "idle"
    /\ UNCHANGED << socket, received_packets >>
    /\ UNCHANGED << inflight, wire, peerClosed >>
    /\ UNCHANGED << buffer, tsock, bufAtParse, lastData, emitted >>
    /\ UNCHANGED << wcount, wresult, toDevice, wlenAtReturn, scen, pingsSent, tempsSent >>
    /\ UNCHANGED << sessionVars, codecVars, demoVars, readerVars, peerVars >>

\* connect(): socket.connect raises, return False; self.socket stays the new socket
ConnectFail ==
    /\ mpc = "connecting"
    /\ mpc' = "idle"
    /\ UNCHANGED << wcount, wresult, toDevice, wlenAtReturn, scen, pingsSent, tempsSent >>
    /\ UNCHANGED << sessionVars, codecVars, demoVars, readerVars, clientVars, sockVars, threadVars, peerVars >>

\* disconnect(): self.running = False
DisconnectBegin ==
    /\ mpc = "idle"
    /\ running' = FALSE
    /\ mpc' = "disc_close"
    /\ scen' = IF scen \in {"closed", "closed again"} THEN "closing again" ELSE "closing"
    /\ UNCHANGED << socket, connected, received_packets, receive_thread >>
    /\ WaitForgotten
    /\ UNCHANGED << toDevice, pingsSent, tempsSent >>
    /\ UNCHANGED << sendResult, sclient, sampleVars, udpVars, fixtureVars >>
    /\ UNCHANGED << codecVars, demoVars, readerVars, sockVars, threadVars, peerVars >>

\* disconnect(): if self.socket: close it, self.socket = None; connected = False
DisconnectClose ==
    /\ mpc = "disc_close"
    /\ IF socket # 0
       THEN /\ sockState' = [sockState EXCEPT ![socket] = "closed"]
            /\ socket' = 0
       ELSE UNCHANGED << socket, sockState >>
    /\ connected' = FALSE
    /\ mpc' = "disc_join"
    /\ UNCHANGED << running, received_packets, receive_thread >>
    /\ UNCHANGED << inflight, wire, peerClosed >>
    /\ UNCHANGED << wcount, wresult, toDevice, wlenAtReturn, scen, pingsSent, tempsSent >>
    /\ UNCHANGED << sessionVars, codecVars, demoVars, readerVars, threadVars, peerVars >>

\* disconnect(): no receive_thread, or join returns because the thread ended
DisconnectJoined ==
    /\ mpc = "disc_join"
    /\ receive_thread # 0 => tpc[receive_thread] = "done"
    /\ mpc' = "idle"
    /\ scen' = IF scen = "closing again" THEN "closed again" ELSE "closed"
    /\ UNCHANGED << wcount, wresult, toDevice, wlenAtReturn, pingsSent, tempsSent >>
    /\ UNCHANGED << sessionVars, codecVars, demoVars, readerVars, clientVars, sockVars, threadVars, peerVars >>

\* disconnect(): join(timeout=1.0) returns while the thread is still alive
DisconnectJoinTimeout ==
    /\ mpc = "disc_join"
    /\ receive_thread # 0
    /\ tpc[receive_thread] # "done"
    /\ mpc' = "idle"
    /\ scen' = IF scen = "closing again" THEN "closed again" ELSE "closed"
    /\ UNCHANGED << wcount, wresult, toDevice, wlenAtReturn, pingsSent, tempsSent >>
    /\ UNCHANGED << sessionVars, codecVars, demoVars, readerVars, clientVars, sockVars, threadVars, peerVars >>

\* send_packet(IoTSensePacket(PKT_ID_SYSTEM_CONFIG, '<BH' PING_CMD, seq)):
\* returns False when not connected or when send raises on a socket that
\* is not connected, else the device receives the ping
SendPing ==
    /\ mpc = "idle"
    /\ pingsSent < MaxPings
    /\ pingsSent' = pingsSent + 1
    /\ IF ~connected \/ socket = 0 \/ sockState[socket] # "connected"
       THEN /\ scen' = "none"
            /\ sendResult' = "False"
            /\ UNCHANGED toDevice
       ELSE /\ toDevice' = [toDevice EXCEPT ![socket] = Append(@, TestPingSeq)]
            /\ scen' = IF scen = "cleared" THEN "pinged" ELSE "none"
            /\ sendResult' = "True"
    /\ WaitForgotten
    /\ UNCHANGED << mpc, tempsSent >>
    /\ UNCHANGED << closerPc, sclient, sampleVars, udpVars, fixtureVars >>
    /\ UNCHANGED << codecVars, demoVars, readerVars, clientVars, sockVars, threadVars, peerVars >>

\* client.received_packets.clear()
Clear ==
    /\ mpc = "idle"
    /\ received_packets' = << >>
    /\ scen' = IF connected THEN "cleared" ELSE "none"
    /\ UNCHANGED << socket, connected, running, receive_thread >>
    /\ WaitForgotten
    /\ UNCHANGED << mpc, toDevice, pingsSent, tempsSent >>
    /\ UNCHANGED << sendResult, sclient, sampleVars, udpVars, fixtureVars >>
    /\ UNCHANGED << codecVars, demoVars, readerVars, sockVars, threadVars, peerVars >>

\* wait_for_packets(count, timeout): start_time = time.time()
WaitStart ==
    /\ mpc = "idle"
    /\ \E count \in WaitCounts : wcount' = count
    /\ wresult' = "none"
    /\ wlenAtReturn' = 0
    /\ closerPc' = "none"
    /\ mpc' = "wait_check"
    /\ scen' = IF scen = "pinged" THEN "pinged" ELSE "none"
    /\ UNCHANGED << toDevice, pingsSent, tempsSent >>
    /\ UNCHANGED << sendResult, sclient, sampleVars, udpVars, fixtureVars >>
    /\ UNCHANGED << codecVars, demoVars, readerVars, clientVars, sockVars, threadVars, peerVars >>

\* 'while len(self.received_packets) < count', return True when it fails
WaitCheck ==
    /\ mpc = "wait_check"
    /\ IF Len(received_packets) < wcount
       THEN /\ mpc' = "wait_time"
            /\ UNCHANGED << wresult, wlenAtReturn, scen >>
       ELSE /\ mpc' = "idle"
            /\ wresult' = "True"
            /\ wlenAtReturn' = Len(received_packets)
            /\ scen' = IF scen = "pinged" /\ wcount = 1 THEN "verified" ELSE "none"
    /\ UNCHANGED << wcount, toDevice, pingsSent, tempsSent >>
    /\ UNCHANGED << sessionVars, codecVars, demoVars, readerVars, clientVars, sockVars, threadVars, peerVars >>

\* 'if time.time() - start_time > timeout: return False'
WaitExpired ==
    /\ mpc = "wait_time"
    /\ mpc' = "idle"
    /\ wresult' = "False"
    /\ wlenAtReturn' = Len(received_packets)
    /\ scen' = "none"
    /\ UNCHANGED << wcount, toDevice, pingsSent, tempsSent >>
    /\ UNCHANGED << sessionVars, codecVars, demoVars, readerVars, clientVars, sockVars, threadVars, peerVars >>

\* the timeout has not elapsed: time.sleep(0.01) and round again
WaitSleep ==
    /\ mpc = "wait_time"
    /\ mpc' = "wait_check"
    /\ UNCHANGED << wcount, wresult, toDevice, wlenAtReturn, scen, pingsSent, tempsSent >>
    /\ UNCHANGED << sessionVars, codecVars, demoVars, readerVars, clientVars, sockVars, threadVars, peerVars >>

\* a second thread calls disconnect() on the connected client while the test
\* thread is inside wait_for_packets: self.running = False
CloserBegin ==
    /\ mpc \in {"wait_check", "wait_time"}
    /\ connected
    /\ closerPc = "none"
    /\ closerPc' = "disc_close"
    /\ running' = FALSE
    /\ UNCHANGED << socket, connected, received_packets, receive_thread >>
    /\ UNCHANGED << sendResult, sclient, sampleVars, udpVars, fixtureVars >>
    /\ UNCHANGED << codecVars, demoVars, readerVars, testVars, sockVars, threadVars, peerVars >>

\* its disconnect(): if self.socket: close it, self.socket = None; connected = False
CloserClose ==
    /\ closerPc = "disc_close"
    /\ IF socket # 0
       THEN /\ sockState' = [sockState EXCEPT ![socket] = "closed"]
            /\ socket' = 0
       ELSE UNCHANGED << socket, sockState >>
    /\ connected' = FALSE
    /\ closerPc' = "disc_join"
    /\ UNCHANGED << running, received_packets, receive_thread >>
    /\ UNCHANGED << inflight, wire, peerClosed >>
    /\ UNCHANGED << sendResult, sclient, sampleVars, udpVars, fixtureVars >>
    /\ UNCHANGED << codecVars, demoVars, readerVars, testVars, threadVars, peerVars >>

\* its disconnect() returns: no receive_thread, the thread ended, or
\* join(timeout=1.0) expired; "done" when the test thread is still waiting
CloserReturns ==
    /\ closerPc = "disc_join"
    /\ closerPc' = IF mpc \in {"wait_check", "wait_time"} THEN "done" ELSE "late"
    /\ UNCHANGED << sendResult, sclient, sampleVars, udpVars, fixtureVars >>
    /\ UNCHANGED << codecVars, demoVars, readerVars, tcpVars >>

\* the device streams a temperature packet to a connected client
DeviceSendTemp(s) ==
    /\ sockState[s] = "connected"
    /\ ~peerClosed[s]
    /\ tempsSent < MaxPeerSends
    /\ tempsSent' = tempsSent + 1
    /\ wire' = [wire EXCEPT ![s] = @ \o pack(TcpTemp)]
    /\ UNCHANGED << sockState, inflight, peerClosed >>
    /\ UNCHANGED << mpc, wcount, wresult, toDevice, wlenAtReturn, scen, pingsSent >>
    /\ UNCHANGED << sessionVars, codecVars, demoVars, readerVars, clientVars, threadVars, peerVars >>

\* the device answers a ping with a PONG carrying its sequence number
DevicePong(s) ==
    /\ sockState[s] = "connected"
    /\ ~peerClosed[s]
    /\ toDevice[s] # << >>
    /\ wire' = [wire EXCEPT ![s] = @ \o pack(Pong(Head(toDevice[s])))]
    /\ toDevice' = [toDevice EXCEPT ![s] = Tail(@)]
    /\ UNCHANGED << sockState, inflight, peerClosed >>
    /\ UNCHANGED << mpc, wcount, wresult, wlenAtReturn, scen, pingsSent, tempsSent >>
    /\ UNCHANGED << sessionVars, codecVars, demoVars, readerVars, clientVars, threadVars, peerVars >>

\* the device closes the connection
DeviceClose(s) ==
    /\ sockState[s] = "connected"
    /\ ~peerClosed[s]
    /\ peerClosed' = [peerClosed EXCEPT ![s] = TRUE]
    /\ UNCHANGED << sockState, inflight, wire >>
    /\ UNCHANGED << sessionVars, codecVars, demoVars, readerVars, testVars, clientVars, threadVars, peerVars >>

TcpNext ==
    \/ ConnectBegin
    \/ ConnectOk
    \/ ConnectFail
    \/ DisconnectBegin
    \/ DisconnectClose
    \/ DisconnectJoined
    \/ DisconnectJoinTimeout
    \/ SendPing
    \/ Clear
    \/ WaitStart
    \/ WaitCheck
    \/ WaitExpired
    \/ WaitSleep
    \/ \E s \in Sockets : DeviceSendTemp(s)
    \/ \E s \in Sockets : DevicePong(s)
    \/ \E s \in Sockets : DeviceClose(s)
    \/ \E t \in Sockets : LoopCheck(t)
    \/ \E t \in Sockets : RecvCall(t)
    \/ \E t \in Sockets : RecvData(t)
    \/ \E t \in Sockets : RecvEof(t)
    \/ \E t \in Sockets : RecvTimeout(t)
    \/ \E t \in Sockets : RecvError(t)
    \/ \E t \in Sockets : Parse(t)

(***************************************************************************)
(* Session lifecycle of SampleClient (flow): connect, send_command,        *)
(* disconnect                                                              *)
(***************************************************************************)
SampleSockets == Cardinality({ x \in Sockets : s_sockState[x] # "none" })

\* SampleClient(): the state after construction
SampleInit ==
    /\ sclient = "SampleClient"
    /\ SampleIdle

\* connect(): self.sock = socket.socket(), settimeout, then sock.connect either
\* succeeds (connected = True, return True) or raises (return False)
SampleConnect ==
    /\ sclient = "SampleClient"
    /\ SampleSockets < MaxSockets
    /\ \E ok \in BOOLEAN :
          /\ s_sockState' = [s_sockState EXCEPT ![SampleSockets + 1] =
                                IF ok THEN "connected" ELSE "created"]
          /\ s_connected' = IF ok THEN TRUE ELSE s_connected
          /\ s_result' = IF ok THEN "True" ELSE "False"
    /\ s_sock' = SampleSockets + 1
    /\ s_last' = "connect"
    /\ UNCHANGED s_sent
    /\ UNCHANGED << callVars, sclient, udpVars, fixtureVars >>
    /\ UNCHANGED << codecVars, tcpVars, demoVars, readerVars >>

\* a faulty variant of disconnect below: the socket is closed, self.sock is kept
SampleDisconnect_KeepsSock ==
    /\ sclient = "SampleClient"
    /\ s_connected' = FALSE
    /\ IF s_sock # 0
       THEN s_sockState' = [s_sockState EXCEPT ![s_sock] = "closed"]
       ELSE UNCHANGED s_sockState
    /\ s_result' = "None"
    /\ s_last' = IF s_last \in {"disconnect", "disconnect again"}
                 THEN "disconnect again" ELSE "disconnect"
    /\ UNCHANGED << s_sock, s_sent >>
    /\ UNCHANGED << callVars, sclient, udpVars, fixtureVars >>
    /\ UNCHANGED << codecVars, tcpVars, demoVars, readerVars >>

\* disconnect(): connected = False; if self.sock: close it, self.sock = None
SampleDisconnect ==
    /\ sclient = "SampleClient"
    /\ s_connected' = FALSE
    /\ IF s_sock # 0
       THEN /\ s_sockState' = [s_sockState EXCEPT ![s_sock] = "closed"]
            /\ s_sock' = 0
       ELSE UNCHANGED << s_sock, s_sockState >>
    /\ s_result' = "None"
    /\ s_last' = IF s_last \in {"disconnect", "disconnect again"}
                 THEN "disconnect again" ELSE "disconnect"
    /\ UNCHANGED s_sent
    /\ UNCHANGED << callVars, sclient, udpVars, fixtureVars >>
    /\ UNCHANGED << codecVars, tcpVars, demoVars, readerVars >>

\* a faulty variant of send_command below: the command is sent whatever self.sock is
SampleSendCommand_Unguarded(cmd) ==
    /\ sclient = "SampleClient"
    /\ Len(s_sent) < MaxCommands
    /\ s_sent' = Append(s_sent, cmd)
    /\ s_result' = "True"
    /\ s_last' = "send_command"
    /\ UNCHANGED << s_sock, s_connected, s_sockState >>
    /\ UNCHANGED << callVars, sclient, udpVars, fixtureVars >>
    /\ UNCHANGED << codecVars, tcpVars, demoVars, readerVars >>

\* send_command(cmd): False when self.sock is None; sock.send raises on a
\* socket that is not connected (return False); else the byte is sent
SampleSendCommand(cmd) ==
    /\ sclient = "SampleClient"
    /\ Len(s_sent) < MaxCommands
    /\ IF s_sock = 0
       THEN /\ s_result' = "False"
            /\ UNCHANGED s_sent
       ELSE IF s_sockState[s_sock] # "connected"
            THEN /\ s_result' = "False"
                 /\ UNCHANGED s_sent
            ELSE /\ s_sent' = Append(s_sent, cmd)
                 /\ s_result' = "True"
    /\ s_last' = "send_command"
    /\ UNCHANGED << s_sock, s_connected, s_sockState >>
    /\ UNCHANGED << callVars, sclient, udpVars, fixtureVars >>
    /\ UNCHANGED << codecVars, tcpVars, demoVars, readerVars >>

SampleNext ==
    \/ SampleConnect
    \/ SampleDisconnect
    \/ \E cmd \in {CMD_START_SAMPLING, CMD_STOP_SAMPLING} : SampleSendCommand(cmd)

(***************************************************************************)
(* UdpServer (test harness): start, stop, recv_from, send_to, clear        *)
(***************************************************************************)
\* addresses of the devices that send datagrams, and their payloads: one
\* byte, and a whole packet of the simplified header
UdpSenders == {1, 2}
UdpData == {<< 7 >>, << 1, 2, 0, 0 >>}

\* the timeout arguments of recv_from, in tenths of a second: the default
\* 10.0 and an explicit 2.0; the default 0.1 of clear
UdpRecvDefault == 100
UdpRecvTimeouts == {UdpRecvDefault, 20}
UdpClearDefault == 1

UdpSockets == Cardinality({ x \in Sockets : u_sockState[x] # "none" })

\* UdpServer(port): the state after construction
UdpInit ==
    /\ sclient = "UdpServer"
    /\ UdpIdle

\* start(): nothing when already started; else self._socket = socket.socket(),
\* then bind either succeeds or raises OSError
UdpStart ==
    /\ sclient = "UdpServer"
    /\ IF u_socket # 0
       THEN /\ u_result' = "None"
            /\ UNCHANGED << u_socket, u_sockState, u_timeout >>
       ELSE /\ UdpSockets < MaxSockets
            /\ u_socket' = UdpSockets + 1
            /\ u_timeout' = -1
            /\ \E ok \in BOOLEAN :
                  /\ u_sockState' = [u_sockState EXCEPT ![UdpSockets + 1] =
                                        IF ok THEN "bound" ELSE "created"]
                  /\ u_result' = IF ok THEN "None" ELSE "OSError"
    /\ u_last' = "start"
    /\ u_address' = -1
    /\ UNCHANGED << u_last_sender, u_queue, u_out, u_packet, u_marker, u_option >>
    /\ UNCHANGED << callVars, sclient, sampleVars, fixtureVars >>
    /\ UNCHANGED << codecVars, tcpVars, demoVars, readerVars >>

\* a faulty variant of stop below: the last sender is forgotten with the socket
UdpStop_ForgetsSender ==
    /\ sclient = "UdpServer"
    /\ IF u_socket # 0
       THEN /\ u_sockState' = [u_sockState EXCEPT ![u_socket] = "closed"]
            /\ u_socket' = 0
            /\ u_queue' = << >>
            /\ u_timeout' = -1
       ELSE UNCHANGED << u_socket, u_sockState, u_queue, u_timeout >>
    /\ u_last_sender' = 0
    /\ u_result' = "None"
    /\ u_last' = IF u_last \in {"stop", "stop again"} THEN "stop again" ELSE "stop"
    /\ u_address' = -1
    /\ UNCHANGED << u_out, u_packet, u_marker, u_option >>
    /\ UNCHANGED << callVars, sclient, sampleVars, fixtureVars >>
    /\ UNCHANGED << codecVars, tcpVars, demoVars, readerVars >>

\* stop(): if self._socket is not None: close it, self._socket = None
UdpStop ==
    /\ sclient = "UdpServer"
    /\ IF u_socket # 0
       THEN /\ u_sockState' = [u_sockState EXCEPT ![u_socket] = "closed"]
            /\ u_socket' = 0
            /\ u_queue' = << >>
            /\ u_timeout' = -1
       ELSE UNCHANGED << u_socket, u_sockState, u_queue, u_timeout >>
    /\ u_result' = "None"
    /\ u_last' = IF u_last \in {"stop", "stop again"} THEN "stop again" ELSE "stop"
    /\ u_address' = -1
    /\ UNCHANGED << u_last_sender, u_out, u_packet, u_marker, u_option >>
    /\ UNCHANGED << callVars, sclient, sampleVars, fixtureVars >>
    /\ UNCHANGED << codecVars, tcpVars, demoVars, readerVars >>

\* a faulty variant of recv_from below: only the first sender is recorded
UdpRecvFrom_KeepsFirstSender(timeout) ==
    /\ sclient = "UdpServer"
    /\ IF u_socket = 0
       THEN /\ u_result' = "RuntimeError"
            /\ UNCHANGED << u_last_sender, u_queue, u_packet, u_timeout >>
       ELSE /\ u_timeout' = timeout
            /\ IF u_queue # << >>
               THEN /\ u_result' = "UdpPacket"
                    /\ u_last_sender' = IF u_last_sender = 0 THEN Head(u_queue).address
                                        ELSE u_last_sender
                    /\ u_packet' = Head(u_queue)
                    /\ u_queue' = Tail(u_queue)
               ELSE /\ u_result' = "TimeoutError"
                    /\ UNCHANGED << u_last_sender, u_queue, u_packet >>
    /\ u_last' = "recv_from"
    /\ u_address' = -1
    /\ UNCHANGED << u_socket, u_sockState, u_out, u_marker, u_option >>
    /\ UNCHANGED << callVars, sclient, sampleVars, fixtureVars >>
    /\ UNCHANGED << codecVars, tcpVars, demoVars, readerVars >>

\* recv_from(timeout): RuntimeError when not started; else settimeout(timeout)
\* and the first waiting datagram is returned with its sender, which becomes
\* _last_sender, or TimeoutError is raised
UdpRecvFrom(timeout) ==
    /\ sclient = "UdpServer"
    /\ IF u_socket = 0
       THEN /\ u_result' = "RuntimeError"
            /\ UNCHANGED << u_last_sender, u_queue, u_packet, u_timeout >>
       ELSE /\ u_timeout' = timeout
            /\ IF u_queue # << >>
               THEN /\ u_result' = "UdpPacket"
                    /\ u_last_sender' = Head(u_queue).address
                    /\ u_packet' = Head(u_queue)
                    /\ u_queue' = Tail(u_queue)
               ELSE /\ u_result' = "TimeoutError"
                    /\ UNCHANGED << u_last_sender, u_queue, u_packet >>
    /\ u_last' = "recv_from"
    /\ u_address' = -1
    /\ UNCHANGED << u_socket, u_sockState, u_out, u_marker, u_option >>
    /\ UNCHANGED << callVars, sclient, sampleVars, fixtureVars >>
    /\ UNCHANGED << codecVars, tcpVars, demoVars, readerVars >>

\* a faulty variant of send_to below: the last sender is preferred to the address
UdpSendTo_PrefersLastSender(data, address) ==
    /\ sclient = "UdpServer"
    /\ Len(u_out) < MaxCommands
    /\ LET dest == IF u_last_sender # 0 THEN u_last_sender ELSE address
       IN  IF u_socket = 0 \/ dest = 0
           THEN /\ u_result' = "RuntimeError"
                /\ UNCHANGED u_out
           ELSE /\ u_out' = Append(u_out, [data |-> data, address |-> dest])
                /\ u_result' = "sent"
    /\ u_last' = "send_to"
    /\ u_address' = address
    /\ UNCHANGED << u_socket, u_last_sender, u_sockState, u_queue, u_packet, u_timeout,
                    u_marker, u_option >>
    /\ UNCHANGED << callVars, sclient, sampleVars, fixtureVars >>
    /\ UNCHANGED << codecVars, tcpVars, demoVars, readerVars >>

\* send_to(data, address): RuntimeError when not started, or when there is
\* neither an address (0 is None) nor a last sender; else sendto(data, dest)
UdpSendTo(data, address) ==
    /\ sclient = "UdpServer"
    /\ Len(u_out) < MaxCommands
    /\ LET dest == IF address # 0 THEN address ELSE u_last_sender
       IN  IF u_socket = 0 \/ dest = 0
           THEN /\ u_result' = "RuntimeError"
                /\ UNCHANGED u_out
           ELSE /\ u_out' = Append(u_out, [data |-> data, address |-> dest])
                /\ u_result' = "sent"
    /\ u_last' = "send_to"
    /\ u_address' = address
    /\ UNCHANGED << u_socket, u_last_sender, u_sockState, u_queue, u_packet, u_timeout,
                    u_marker, u_option >>
    /\ UNCHANGED << callVars, sclient, sampleVars, fixtureVars >>
    /\ UNCHANGED << codecVars, tcpVars, demoVars, readerVars >>

\* reply(data): send_to(data, self._last_sender)
UdpReply(data) == UdpSendTo(data, u_last_sender)

\* clear(timeout): 0 when not started; else settimeout(timeout) and the
\* waiting datagrams are read and dropped until recvfrom times out
UdpClear ==
    /\ sclient = "UdpServer"
    /\ IF u_socket = 0
       THEN UNCHANGED << u_queue, u_timeout >>
       ELSE /\ u_queue' = << >>
            /\ u_timeout' = UdpClearDefault
    /\ u_result' = "count"
    /\ u_last' = "clear"
    /\ u_address' = -1
    /\ UNCHANGED << u_socket, u_last_sender, u_sockState, u_out, u_packet, u_marker, u_option >>
    /\ UNCHANGED << callVars, sclient, sampleVars, fixtureVars >>
    /\ UNCHANGED << codecVars, tcpVars, demoVars, readerVars >>

\* a device sends a datagram to the port the server is bound to
UdpDeviceSends ==
    /\ sclient = "UdpServer"
    /\ u_socket # 0
    /\ u_sockState[u_socket] = "bound"
    /\ Len(u_queue) < MaxDatagrams
    /\ \E d \in UdpData, a \in UdpSenders :
          u_queue' = Append(u_queue, [data |-> d, address |-> a])
    /\ UNCHANGED << u_socket, u_last_sender, u_sockState, u_out, u_result, u_last,
                    u_packet, u_timeout, u_address, u_marker, u_option >>
    /\ UNCHANGED << callVars, sclient, sampleVars, fixtureVars >>
    /\ UNCHANGED << codecVars, tcpVars, demoVars, readerVars >>

UdpNext ==
    \/ UdpStart
    \/ UdpStop
    \/ \E t \in UdpRecvTimeouts : UdpRecvFrom(t)
    \/ \E d \in UdpData, a \in {0} \cup UdpSenders : UdpSendTo(d, a)
    \/ \E d \in UdpData : UdpReply(d)
    \/ UdpClear
    \/ UdpDeviceSends

(***************************************************************************)
(* udp_server fixture (test harness): a started and cleared UdpServer is   *)
(* yielded to the test and stopped at teardown                             *)
(***************************************************************************)
\* the udp_timeout markers of a test (none, without argument, 2.0 s) and the
\* values of --udp-timeout (the default 10.0 s, 5.0 s)
UdpMarkers ==
    { NoMarker, [present |-> TRUE, args |-> << >>], [present |-> TRUE, args |-> << 20 >>] }
UdpOptions == {DefaultUdpOption, 50}

\* the fixture function is called for a test
UdpFixtureInit ==
    /\ sclient = "UdpServer"
    /\ UdpFields
    /\ u_marker \in UdpMarkers
    /\ u_option \in UdpOptions

\* server = UdpServer(port, bind_address); server.start()
UdpFixtureStart ==
    /\ u_last = "none"
    /\ UdpStart

\* server.clear()
UdpFixtureClear ==
    /\ u_last = "start"
    /\ u_result = "None"
    /\ UdpClear

\* 'yield server' was reached and the test is running
UdpYielded == u_last \in {"clear", "recv_from", "send_to"}

\* the test calls server.recv_from() or server.recv(), without a timeout argument
UdpTestRecv ==
    /\ UdpYielded
    /\ UdpRecvFrom(UdpRecvDefault)

\* the test calls server.send_to(data, address), server.send_to(data) or
\* server.reply(data)
UdpTestSend ==
    /\ UdpYielded
    /\ \E d \in UdpData, a \in {0} \cup UdpSenders : UdpSendTo(d, a)

UdpTestReply ==
    /\ UdpYielded
    /\ \E d \in UdpData : UdpReply(d)

\* the test is over: finally server.stop()
UdpFixtureStop ==
    /\ UdpYielded
    /\ UdpStop

UdpFixtureNext ==
    \/ UdpFixtureStart
    \/ UdpFixtureClear
    \/ UdpTestRecv
    \/ UdpTestSend
    \/ UdpTestReply
    \/ UdpFixtureStop
    \/ UdpDeviceSends

(***************************************************************************)
(* Session lifecycle of one of the three objects: a TCPClient with its     *)
(* receive threads, a second thread that disconnects during a wait and a   *)
(* device that answers pings; a SampleClient; a UdpServer                  *)
(***************************************************************************)
TcpSessionNext ==
    \/ ConnectBegin
    \/ ConnectOk
    \/ ConnectFail
    \/ DisconnectBegin
    \/ DisconnectClose
    \/ DisconnectJoined
    \/ DisconnectJoinTimeout
    \/ SendPing
    \/ WaitStart
    \/ WaitCheck
    \/ WaitExpired
    \/ WaitSleep
    \/ CloserBegin
    \/ CloserClose
    \/ CloserReturns
    \/ \E s \in Sockets : DevicePong(s)
    \/ \E s \in Sockets : DeviceClose(s)
    \/ \E t \in Sockets : LoopCheck(t)
    \/ \E t \in Sockets : RecvCall(t)
    \/ \E t \in Sockets : RecvData(t)
    \/ \E t \in Sockets : RecvEof(t)
    \/ \E t \in Sockets : RecvTimeout(t)
    \/ \E t \in Sockets : RecvError(t)
    \/ \E t \in Sockets : Parse(t)

SessionInit ==
    \/ sclient = "TCPClient" /\ TcpInit /\ SampleIdle /\ UdpIdle
    \/ SampleInit /\ TcpIdle /\ UdpIdle
    \/ UdpInit /\ TcpIdle /\ SampleIdle

SessionNext == TcpSessionNext \/ SampleNext \/ UdpNext

(***************************************************************************)
(* tcp_connection fixture (test harness): connect with retries, yield the  *)
(* socket, close it at teardown                                            *)
(***************************************************************************)
\* 'for attempt in range(10)'
FixtureAttempts == 10

\* the two harness packages that define the fixture
Harnesses == {"test_harness", "zephyr_io_harness"}

\* timeouts are in tenths of a second
\* pytest_addoption: '--tcp-timeout', type=float, default=10.0
TcpOptionDefault == 100
\* getoption('--tcp-timeout', default=10.0)
GetOptionDefault == 100

\* the tcp_timeout marker of the test: none, one without positional
\* arguments, one with the argument 0.5, 0 or 30 (a second argument is ignored)
TcpMarkers ==
    { NoMarker,
      [present |-> TRUE, args |-> << >>],
      [present |-> TRUE, args |-> << 5 >>],
      [present |-> TRUE, args |-> << 0 >>],
      [present |-> TRUE, args |-> << 300, 5 >>] }

\* the --tcp-timeout option: not registered, registered and not given on the
\* command line, given as 5.0 or as 2.5
TcpOptions ==
    { NoOption,
      [registered |-> TRUE, given |-> FALSE, value |-> TcpOptionDefault],
      [registered |-> TRUE, given |-> TRUE, value |-> 50],
      [registered |-> TRUE, given |-> TRUE, value |-> 25] }

\* config.getoption(name, default): the value of a registered option, else default
getoption(option, default) == IF option.registered THEN option.value ELSE default

\* a faulty variant of the timeout below: the option given on the command
\* line is preferred to the marker
tcp_connection_timeout_OptionFirst(marker, option) ==
    IF option.given THEN option.value
    ELSE IF marker.present /\ marker.args # << >> THEN marker.args[1]
    ELSE getoption(option, GetOptionDefault)

\* 'if marker and marker.args: timeout = float(marker.args[0])
\*  else: timeout = request.config.getoption('--tcp-timeout', default=10.0)'
tcp_connection_timeout(marker, option) ==
    IF marker.present /\ marker.args # << >>
    THEN marker.args[1]
    ELSE getoption(option, GetOptionDefault)

\* the fixture function is called: timeout computed, the socket about to be
\* created
FixtureInit ==
    /\ fpc = "loop"
    /\ fharness \in Harnesses
    /\ fmarker \in TcpMarkers
    /\ foption \in TcpOptions
    /\ ftimeout = tcp_connection_timeout(fmarker, foption)
    /\ fsockTimeout = -1
    /\ attempt = 0
    /\ fsock = 0
    /\ fopen = {}
    /\ fcreated = 0
    /\ fsleeps = 0
    /\ fyields = << >>

\* 'for attempt in range(10)' (test_harness) or the single attempt
\* (zephyr_io_harness): sock = socket.socket(); sock.settimeout(timeout)
FixtureSocket ==
    /\ fpc = "loop"
    /\ attempt < FixtureAttempts
    /\ fsock' = fcreated + 1
    /\ fcreated' = fcreated + 1
    /\ fopen' = fopen \cup {fcreated + 1}
    /\ fsockTimeout' = ftimeout
    /\ fpc' = "connect"
    /\ UNCHANGED << fixtureInputs, ftimeout, attempt, fsleeps, fyields >>
    /\ UNCHANGED << callVars, sclient, sampleVars, udpVars >>
    /\ UNCHANGED << codecVars, tcpVars, demoVars, readerVars >>

\* sock.connect succeeds: yield sock
FixtureYield ==
    /\ fpc = "connect"
    /\ fyields' = Append(fyields, fsock)
    /\ fpc' = "yielded"
    /\ UNCHANGED << fixtureInputs, fsockTimeout, ftimeout, attempt, fsock, fopen, fcreated, fsleeps >>
    /\ UNCHANGED << callVars, sclient, sampleVars, udpVars >>
    /\ UNCHANGED << codecVars, tcpVars, demoVars, readerVars >>

\* sock.connect raises ConnectionRefusedError / OSError: sock.close(),
\* time.sleep(0.2), next attempt
FixtureRetry ==
    /\ fharness = "test_harness"
    /\ fpc = "connect"
    /\ fopen' = fopen \ {fsock}
    /\ fsleeps' = fsleeps + 1
    /\ attempt' = attempt + 1
    /\ fpc' = "loop"
    /\ UNCHANGED << fixtureInputs, fsockTimeout, ftimeout, fsock, fcreated, fyields >>
    /\ UNCHANGED << callVars, sclient, sampleVars, udpVars >>
    /\ UNCHANGED << codecVars, tcpVars, demoVars, readerVars >>

\* a faulty variant of the teardown below: the socket is closed and the loop goes on
FixtureTeardown_NoReturn ==
    /\ fpc = "yielded"
    /\ fopen' = fopen \ {fsock}
    /\ attempt' = attempt + 1
    /\ fpc' = "loop"
    /\ UNCHANGED << fixtureInputs, fsockTimeout, ftimeout, fsock, fcreated, fsleeps, fyields >>
    /\ UNCHANGED << callVars, sclient, sampleVars, udpVars >>
    /\ UNCHANGED << codecVars, tcpVars, demoVars, readerVars >>

\* the test is over and the generator is resumed: finally sock.close(); return
FixtureTeardown ==
    /\ fpc = "yielded"
    /\ fopen' = fopen \ {fsock}
    /\ fpc' = "returned"
    /\ UNCHANGED << fixtureInputs, fsockTimeout, ftimeout, attempt, fsock, fcreated, fsleeps, fyields >>
    /\ UNCHANGED << callVars, sclient, sampleVars, udpVars >>
    /\ UNCHANGED << codecVars, tcpVars, demoVars, readerVars >>

\* test_harness: sock.connect raises an exception that is not an OSError
\* (OverflowError for a port of the hardware map above 65535, which every
\* attempt would raise, so the first does): 'except (ConnectionRefusedError,
\* OSError)' does not catch it and it leaves the fixture
FixtureConnectError ==
    /\ fharness = "test_harness"
    /\ fpc = "connect"
    /\ attempt = 0
    /\ fpc' = "error"
    /\ UNCHANGED << fixtureInputs, fsockTimeout, ftimeout, attempt, fsock, fopen, fcreated, fsleeps, fyields >>
    /\ UNCHANGED << callVars, sclient, sampleVars, udpVars >>
    /\ UNCHANGED << codecVars, tcpVars, demoVars, readerVars >>

\* zephyr_io_harness, one attempt: sock.connect raises, finally sock.close(),
\* the exception leaves the fixture
ZephyrFixtureFails ==
    /\ fharness = "zephyr_io_harness"
    /\ fpc = "connect"
    /\ fopen' = fopen \ {fsock}
    /\ fpc' = "raised"
    /\ UNCHANGED << fixtureInputs, fsockTimeout, ftimeout, attempt, fsock, fcreated, fsleeps, fyields >>
    /\ UNCHANGED << callVars, sclient, sampleVars, udpVars >>
    /\ UNCHANGED << codecVars, tcpVars, demoVars, readerVars >>

\* the loop is exhausted: raise ConnectionError
FixtureRaise ==
    /\ fpc = "loop"
    /\ attempt = FixtureAttempts
    /\ fpc' = "raised"
    /\ UNCHANGED << fixtureInputs, fsockTimeout, ftimeout, attempt, fsock, fopen, fcreated, fsleeps, fyields >>
    /\ UNCHANGED << callVars, sclient, sampleVars, udpVars >>
    /\ UNCHANGED << codecVars, tcpVars, demoVars, readerVars >>

FixtureNext ==
    \/ FixtureSocket
    \/ FixtureYield
    \/ FixtureRetry
    \/ FixtureConnectError
    \/ FixtureTeardown
    \/ FixtureRaise

(***************************************************************************)
(* Specifications                                                          *)
(***************************************************************************)
InitCodec == CodecInit /\ TcpIdle /\ DemoIdle /\ ReaderIdle /\ SessionIdle
SpecCodec == InitCodec /\ [][CodecNext]_vars

InitEncode == EncodeInit /\ TcpIdle /\ DemoIdle /\ ReaderIdle /\ SessionIdle
SpecEncode == InitEncode /\ [][EncodeNext]_vars

\* the wire-layout scenario: a packet with packet_id 9 and a payload of 7
\* bytes is encoded and sent, the peer of a connected TCPClient sends the
\* same bytes, and the receive loop decodes them
PeerSendsEncoded ==
    /\ cpc = "True"
    /\ stream = << >>
    /\ stream' = csent
    /\ sentPkts' = << cpkt >>
    /\ inflight' = [inflight EXCEPT ![1] = csent]
    /\ UNCHANGED << corrupt, sockState, wire, peerClosed >>
    /\ UNCHANGED << sessionVars, codecVars, demoVars, readerVars, testVars, clientVars, threadVars >>

ScenarioNext ==
    \/ TcpSendPacket
    \/ DemoSendPacket
    \/ IoTSendPacket
    \/ PeerSendsEncoded
    \/ Deliver(1)
    \/ LoopCheck(1)
    \/ RecvCall(1)
    \/ RecvData(1)
    \/ RecvTimeout(1)
    \/ Parse(1)

InitScenario ==
    /\ StreamInit
    /\ sentPkts = << >>
    /\ corrupt = 0
    /\ EncodeInit
    /\ cpkt.packet_id = PKT_ID_SYSTEM_CONFIG
    /\ Len(cpkt.payload) = ScenarioLen
    /\ DemoIdle /\ ReaderIdle /\ SessionIdle
SpecScenario == InitScenario /\ [][ScenarioNext]_vars

\* the extraction loops on corrupt streams: the receive loop of a TCPClient,
\* or the loops of the demo client
InitCorrupt == CorruptInit /\ CodecIdle /\ DemoIdle /\ ReaderIdle /\ SessionIdle
SpecCorrupt == InitCorrupt /\ [][StreamNext]_vars

LoopsNext == StreamNext \/ DemoScanRecv \/ DemoScanStep

InitLoops ==
    /\ \/ CorruptInit /\ DemoIdle
       \/ TcpIdle /\ DemoScanInit
    /\ CodecIdle /\ ReaderIdle /\ SessionIdle
SpecLoops == InitLoops /\ [][LoopsNext]_vars

InitStream == StreamInit /\ CodecIdle /\ DemoIdle /\ ReaderIdle /\ SessionIdle
SpecStream == InitStream /\ [][StreamNext]_vars

InitDemo == DemoInit /\ CodecIdle /\ TcpIdle /\ ReaderIdle /\ SessionIdle
SpecDemo == InitDemo /\ [][DemoNext]_vars

Init == TcpInit /\ CodecIdle /\ DemoIdle /\ ReaderIdle /\ SessionIdle
Spec == Init /\ [][TcpNext]_vars

InitSession == SessionInit /\ CallIdle /\ FixtureIdle /\ CodecIdle /\ DemoIdle /\ ReaderIdle
SpecSession == InitSession /\ [][SessionNext]_vars

InitUdpFixture ==
    /\ UdpFixtureInit
    /\ CallIdle /\ SampleIdle /\ FixtureIdle
    /\ CodecIdle /\ TcpIdle /\ DemoIdle /\ ReaderIdle
SpecUdpFixture == InitUdpFixture /\ [][UdpFixtureNext]_vars

\* the fixture of either harness package, whatever marker and option
TimeoutNext == FixtureNext \/ ZephyrFixtureFails

InitTimeout ==
    /\ FixtureInit
    /\ CallIdle /\ sclient = "none" /\ SampleIdle /\ UdpIdle
    /\ CodecIdle /\ TcpIdle /\ DemoIdle /\ ReaderIdle
SpecTimeout == InitTimeout /\ [][TimeoutNext]_vars

InitFixture ==
    /\ FixtureInit
    /\ fharness = "test_harness"
    /\ CallIdle /\ sclient = "none" /\ SampleIdle /\ UdpIdle
    /\ CodecIdle /\ TcpIdle /\ DemoIdle /\ ReaderIdle
SpecFixture == InitFixture /\ [][FixtureNext]_vars

\* the readers of the extended header, with no timeout and no close
ExtendedNext ==
    \/ PeerSendSensor
    \/ ReaderDeliver
    \/ SampleReceivePacket
    \/ SampleRecvExact
    \/ PacketReceivePacket
    \/ PacketRecvExact

InitExtended ==
    /\ ReaderInit
    /\ rclient \in ExtendedClients
    /\ CodecIdle /\ TcpIdle /\ DemoIdle /\ SessionIdle
SpecExtended == InitExtended /\ [][ExtendedNext]_vars

\* the readers of the extended header called through receive_packets, with
\* timeouts
BatchNext ==
    \/ PeerSendSensor
    \/ ReaderDeliver
    \/ BatchStart
    \/ BatchCollect
    \/ SampleRecvExact
    \/ SampleRecvTimeout
    \/ PacketRecvExact
    \/ PacketRecvTimeout

SpecBatch == InitExtended /\ [][BatchNext]_vars

\* a SampleClient whose server may close the connection, also in the
\* middle of a packet
CloseNext ==
    \/ PeerSendSensor
    \/ PeerCloses
    \/ ReaderDeliver
    \/ SampleReceivePacket
    \/ SampleRecvExact
    \/ SampleRecvTimeout
    \/ SampleRecvEof

InitClose == InitExtended /\ rclient = "SampleClient"
SpecClose == InitClose /\ [][CloseNext]_vars

\* receive_packets with the clock observed: each sock.recv blocks for at most
\* the timeout of the socket, the device streams
DeadlineNext ==
    \/ DeviceStreams
    \/ ReaderDeliver
    \/ BatchStart
    \/ BatchCollect
    \/ RecvBlocks
    \/ SampleRecvExact
    \/ SampleRecvTimeout
    \/ PacketRecvExact
    \/ PacketRecvTimeout

InitDeadline ==
    /\ ReaderConnected
    /\ rsockTimeout = SampleTimeout
    /\ rclient \in ExtendedClients
    /\ bnow = 0
    /\ rblocked = 0
    /\ sampling = TRUE
    /\ CodecIdle /\ TcpIdle /\ DemoIdle /\ SessionIdle
SpecDeadline == InitDeadline /\ [][DeadlineNext]_vars

\* start_sampling / stop_sampling of a connected SampleClient between two
\* calls of receive_packets
SamplingSendCommand ==
    /\ rclient = "SampleClient"
    /\ rpc = "idle"
    /\ bpc # "calling"
    /\ \E cmd \in {CMD_START_SAMPLING, CMD_STOP_SAMPLING} : SampleSendCommand(cmd)

\* send_command(cmd) of PacketClient: self._sock.send(bytes([cmd])), returns None
PacketSendCommand ==
    /\ rclient = "PacketClient"
    /\ rpc = "idle"
    /\ bpc # "calling"
    /\ Len(s_sent) < MaxCommands
    /\ \E cmd \in {CMD_START_SAMPLING, CMD_STOP_SAMPLING} : s_sent' = Append(s_sent, cmd)
    /\ s_result' = "None"
    /\ s_last' = "send_command"
    /\ UNCHANGED << s_sock, s_connected, s_sockState >>
    /\ UNCHANGED << callVars, sclient, udpVars, fixtureVars >>
    /\ UNCHANGED << codecVars, tcpVars, demoVars, readerVars >>

\* the device reads the next command byte: START makes it produce packets,
\* STOP makes it stop producing
DeviceTakesCommand ==
    /\ devTaken < Len(s_sent)
    /\ devTaken' = devTaken + 1
    /\ sampling' = (s_sent[devTaken + 1] = CMD_START_SAMPLING)
    /\ UNCHANGED << counterVars, timeoutVars, bquiet, timeVars, rclosed, batchVars, rclient, rinflight, rwire, rpc, rdata, rhdr, rlast,
                    rcaller, ppc, pingSeq, pingResult, rsentLog, rtotal, rconsumed, rcallStart,
                    rreturned, rwhy, pingWhy >>
    /\ UNCHANGED << sessionVars, codecVars, tcpVars, demoVars >>

SamplingNext ==
    \/ SamplingSendCommand
    \/ PacketSendCommand
    \/ DeviceTakesCommand
    \/ DeviceStreams
    \/ ReaderDeliver
    \/ BatchStart
    \/ BatchCollect
    \/ SampleRecvExact
    \/ SampleRecvTimeout
    \/ PacketRecvExact
    \/ PacketRecvTimeout

\* a connected client of a device that is not sampling; time is not observed
InitSampling ==
    /\ ReaderConnected
    /\ rsockTimeout = SampleTimeout
    /\ rclient \in ExtendedClients
    /\ bnow = -1
    /\ rblocked = -1
    /\ sampling = FALSE
    /\ sclient = (IF rclient = "SampleClient" THEN "SampleClient" ELSE "none")
    /\ s_sock = 1
    /\ s_connected = TRUE
    /\ s_sockState = [x \in 1..MaxSockets |-> IF x = 1 THEN "connected" ELSE "none"]
    /\ s_sent = << >>
    /\ s_result = "True"
    /\ s_last = "connect"
    /\ CallIdle /\ UdpIdle /\ FixtureIdle
    /\ CodecIdle /\ TcpIdle /\ DemoIdle
SpecSampling == InitSampling /\ [][SamplingNext]_vars

InitReaders == ReaderInit /\ CodecIdle /\ TcpIdle /\ DemoIdle /\ SessionIdle
SpecReaders == InitReaders /\ [][ReaderNext]_vars

StreamConsumed ==
    /\ inflight[1] = << >>
    /\ wire[1] = << >>
    /\ tpc[1] # "parse"

\* C1: for a stream of well-formed packets, whatever the recv chunks are, the
\* packets appended so far followed by those still to be extracted are the
\* packets of the stream decoded as one contiguous buffer, which are the
\* packets the peer sent; once all bytes are processed received_packets is
\* exactly that sequence
C1_ChunkIndependence ==
    corrupt = 0 =>
        /\ received_packets \o ParseAll(buffer[1] \o wire[1] \o inflight[1]).emit
              = ParseAll(stream).emit
        /\ ParseAll(stream).emit = sentPkts
        /\ StreamConsumed => received_packets = sentPkts

\* two packets delivered although the last recv started in the middle of a packet
C1_Witness ==
    /\ corrupt = 0
    /\ StreamConsumed
    /\ tpc[1] = "loop"
    /\ Len(sentPkts) = 2
    /\ received_packets = sentPkts
    /\ lastData[1] # << >>
    /\ Len(lastData[1]) < Len(bufAtParse[1])
    /\ Len(bufAtParse[1]) < Len(stream)

\* a proper prefix of a well-formed packet
IncompletePrefix(r) ==
    /\ Len(r) >= 1 => r[1] = IOTSENSE_VERSION
    /\ \/ Len(r) < 4
       \/ 4 + UnpackU16(r[3], r[4]) > Len(r)

\* exactly one complete well-formed packet followed by a proper prefix of a next one
OnePlusPrefix(b) ==
    /\ Len(b) >= 4
    /\ b[1] = IOTSENSE_VERSION
    /\ 4 + UnpackU16(b[3], b[4]) <= Len(b)
    /\ IncompletePrefix(Drop(b, 4 + UnpackU16(b[3], b[4])))

\* C2: when the buffer after 'buffer += data' holds one complete packet and N
\* bytes of an incomplete next one, the inner loop appends exactly one packet
\* and leaves exactly those N bytes in the buffer
C2_OnePacketAndRest ==
    \A t \in Sockets :
        (tpc[t] = "loop" /\ OnePlusPrefix(bufAtParse[t])) =>
            /\ emitted[t] = 1
            /\ buffer[t] = Drop(bufAtParse[t], 4 + UnpackU16(bufAtParse[t][3], bufAtParse[t][4]))

\* one packet extracted, a full header with an incomplete payload left over
C2_Witness ==
    /\ tpc[1] = "loop"
    /\ OnePlusPrefix(bufAtParse[1])
    /\ emitted[1] = 1
    /\ Len(received_packets) = 1
    /\ Len(buffer[1]) >= 4
    /\ received_packets[1] = sentPkts[1]

\* C3: every packet a blocking reader returns was read from a packet boundary
\* of the stream and is the packet the peer sent there, also after a recv
\* timed out in the middle of a header or payload
C3_NoDesync ==
    \A i \in 1..Len(rreturned) :
        \E j \in 1..Len(rsentLog) :
            /\ rsentLog[j].at = rreturned[i].at
            /\ rsentLog[j].pkt = rreturned[i].pkt

\* C7: ping returns False only when its receive timed out: a ping that
\* returned without a timeout returned True, whatever unsolicited packets
\* arrived before the PONG
C7_PingMatched ==
    (ppc = "done" /\ pingWhy # "timeout") => pingResult = "True"

\* C8: wait_for_packets returns True only with at least count packets in
\* received_packets, and False only with fewer than count packets in it
C8_WaitResult ==
    /\ wresult = "True" => wlenAtReturn >= wcount
    /\ wresult = "False" => wlenAtReturn < wcount

\* a PONG for the test's ping is in received_packets
PongReceived ==
    \E i \in 1..Len(received_packets) :
        /\ received_packets[i].packet_id = PKT_ID_SYSTEM_CONFIG
        /\ Len(received_packets[i].payload) >= 3
        /\ received_packets[i].payload[1] = PING_CMD
        /\ UnpackU16(received_packets[i].payload[2], received_packets[i].payload[3]) = TestPingSeq

\* C9: after clear(), a ping and wait_for_packets(1) returning True,
\* received_packets contains the PONG for that ping
C9_PongAfterWait ==
    scen = "verified" => PongReceived

\* C10: no two receive threads are inside recv on the same socket
C10_SingleReader ==
    \A t1, t2 \in Sockets :
        (t1 # t2 /\ tpc[t1] = "inrecv" /\ tpc[t2] = "inrecv") => tsock[t1] # tsock[t2]

\* data that starts with the stray byte b followed by the complete packet p
StrayThenPacket(data, b, p) ==
    /\ b # IOTSENSE_VERSION
    /\ Take(data, 1 + Len(pack(p))) = << b >> \o pack(p)

\* C4: when the data of a recv starts with one byte that is not
\* IOTSENSE_VERSION followed by a complete well-formed packet, the scan
\* advances by exactly one byte and receive_packets returns that packet first
\* (receive_temperature_data counts it when it is a temperature packet)
C4_SkipOneByte ==
    \A b \in {0, 2}, p \in StreamPackets :
        StrayThenPacket(ddata, b, p) =>
            /\ dlast = "receive_packets" =>
                  /\ dpackets # << >>
                  /\ dpackets[1] = [id |-> p.packet_id, payload |-> p.payload,
                                    size |-> 4 + p.payload_len]
                  /\ dstarts[1] = 1
            /\ (dlast = "temperature" /\ p.packet_id = PKT_ID_SENSOR_TEMP) =>
                  /\ dstarts # << >>
                  /\ dstarts[1] = 1
                  /\ dcount >= Len(dstarts)

\* receive_packets returned the packet behind a stray byte
C4_Witness ==
    /\ dlast = "receive_packets"
    /\ \E p \in StreamPackets : StrayThenPacket(ddata, 2, p) /\ p.payload_len > 0
    /\ Len(dpackets) >= 1
    /\ dstarts[1] = 1

\* C5: every packet appended to received_packets has version IOTSENSE_VERSION,
\* and a well-formed stream that follows one stray byte is still delivered
C5_VersionChecked ==
    /\ \A i \in 1..Len(received_packets) : received_packets[i].version = IOTSENSE_VERSION
    /\ (corrupt = 1 /\ StreamConsumed) => received_packets = sentPkts

\* the TCPClient, the SampleClient and the UdpServer after a close call:
\* the socket reference is None, the TCP clients are not connected, and the
\* call returned without raising
Closed ==
    /\ (mpc = "disc_join" \/ scen \in {"closed", "closed again"}) =>
           (socket = 0 /\ ~connected /\ ~running)
    /\ s_last \in {"disconnect", "disconnect again"} =>
           (s_sock = 0 /\ ~s_connected /\ s_result = "None")
    /\ u_last \in {"stop", "stop again"} => (u_socket = 0 /\ u_result = "None")

\* a step of a close call that directly follows a close call changes nothing
\* of the object's state
SecondCloseChangesNothing ==
    /\ (mpc' # mpc /\ (scen' = "closing again" \/ scen = "closing again")) =>
           UNCHANGED << socket, connected, running, received_packets, receive_thread, sockState >>
    /\ s_last' = "disconnect again" =>
           UNCHANGED << s_sock, s_connected, s_sockState, s_sent >>
    /\ u_last' = "stop again" =>
           UNCHANGED << u_socket, u_last_sender, u_sockState, u_queue, u_out >>

\* C11: closing is idempotent and total: from any prior state
\* TCPClient.disconnect, SampleClient.disconnect and UdpServer.stop raise no
\* error and end with the socket reference None (and connected False for the
\* TCP clients), and a second consecutive call changes no state
C11_CloseIdempotent == []Closed /\ [][SecondCloseChangesNothing]_vars

\* a SampleClient whose connect failed once and succeeded once has been
\* closed twice in a row
C11_Witness ==
    /\ s_last = "disconnect again"
    /\ \E x \in Sockets : s_sockState[x] = "closed"
    /\ \E x \in Sockets : s_sockState[x] = "created"

\* a TCPClient and a UdpServer have been closed twice in a row, the first
\* time with an open socket
C11_ReachedTcp ==
    /\ scen = "closed again"
    /\ \E x \in Sockets : sockState[x] = "closed"

C11_ReachedUdp ==
    /\ u_last = "stop again"
    /\ \E x \in Sockets : u_sockState[x] = "closed"

\* C12: when disconnect() was called, and returned, while another thread was
\* inside wait_for_packets, that wait ends with a session-closed outcome
\* (it does not poll on until it has count packets or its timeout elapses)
C12_WaitCancelled ==
    (closerPc = "done" /\ wresult # "none") => wresult = "SessionClosed"

\* C13: the session leaves Connected on transport close or error: whenever no
\* connect or disconnect call is in progress, connected == True implies that
\* there is a socket and that the receive thread is running (it has not left
\* _receive_loop on a close by the peer or a failed recv)
C13_ConnectedImpliesLive ==
    (mpc \in {"idle", "wait_check", "wait_time"} /\ closerPc \notin {"disc_close", "disc_join"}
        /\ connected) =>
       /\ socket # 0
       /\ receive_thread # 0
       /\ tpc[receive_thread] \notin {"none", "done"}

\* the client has no connected socket (never connected, connect failed, or
\* disconnected)
TcpNotConnected == socket = 0 \/ sockState[socket] # "connected"
SampleNotConnected == s_sock = 0 \/ s_sockState[s_sock] # "connected"

\* a send (or a UDP receive) made while not connected fails, transmits
\* nothing and changes nothing
SendNeedsConnection ==
    /\ (pingsSent' # pingsSent /\ TcpNotConnected) =>
           /\ sendResult' = "False"
           /\ UNCHANGED << toDevice, clientVars, sockVars >>
    /\ (s_last' = "send_command" /\ SampleNotConnected) =>
           /\ s_result' = "False"
           /\ UNCHANGED << s_sent, s_sock, s_connected, s_sockState >>
    /\ (u_last' \in {"send_to", "recv_from"} /\ u_socket = 0) =>
           /\ u_result' = "RuntimeError"
           /\ UNCHANGED << u_socket, u_last_sender, u_sockState, u_queue, u_out >>

\* C14: sending is permitted only while connected: TCPClient.send_packet and
\* SampleClient.send_command return False and transmit no bytes when the
\* client is not connected, UdpServer.send_to and recv_from raise RuntimeError
\* when the server is not started, and the session state is left unchanged
C14_SendNeedsConnection == [][SendNeedsConnection]_vars

\* send_command has returned False on a SampleClient whose connect failed
C14_Witness ==
    /\ s_last = "send_command"
    /\ s_result = "False"
    /\ s_sock # 0
    /\ s_sockState[s_sock] = "created"

\* send_packet has returned False on a disconnected TCPClient, and send_to or
\* recv_from has raised RuntimeError on a stopped UdpServer
C14_ReachedTcp ==
    /\ sendResult = "False"
    /\ socket = 0
    /\ \E x \in Sockets : sockState[x] = "closed"

C14_ReachedUdp ==
    /\ u_last \in {"send_to", "recv_from"}
    /\ u_result = "RuntimeError"
    /\ u_socket = 0
    /\ \E x \in Sockets : u_sockState[x] = "closed"

\* C15: the tcp_connection fixture makes at most 10 connection attempts with
\* a 200 ms delay after each failed attempt; it stops attempting at the first
\* successful connect and yields exactly that one connected socket, never a
\* second one; if all 10 attempts fail it raises ConnectionError without ever
\* yielding a socket
C15_RetryThenYieldOnce ==
    /\ fcreated <= FixtureAttempts
    /\ fsleeps = attempt
    /\ Len(fyields) <= 1
    /\ fpc \in {"yielded", "returned"} =>
           (fyields = << fsock >> /\ fsock = fcreated /\ fcreated = attempt + 1)
    /\ fpc \in {"loop", "connect", "raised"} => fyields = << >>
    /\ fpc = "raised" => (attempt = FixtureAttempts /\ fcreated = FixtureAttempts /\ fopen = {})
    /\ fpc = "yielded" => fopen = {fsock}
    /\ fpc = "returned" => fopen = {}

\* the tenth attempt has connected after nine failures and sleeps, the
\* socket was yielded and the fixture has returned
C15_Witness ==
    /\ fpc = "returned"
    /\ attempt = FixtureAttempts - 1
    /\ fsleeps = FixtureAttempts - 1
    /\ fyields = << FixtureAttempts >>

\* all ten attempts have failed and ConnectionError was raised
C15_ReachedRaise == fpc = "raised" /\ fsleeps = FixtureAttempts

\* C16: when the peer closes the connection while a packet is partially
\* read, SampleClient.receive_packet reports it as a distinct outcome: it
\* does not return the None that it returns for a timeout and for a close
\* with no pending bytes
C16_TruncationReported ==
    (rclient = "SampleClient" /\ rpc = "idle" /\ rwhy = "eof" /\ rconsumed > rcallStart) =>
        rlast # SensorNone

\* every packet sent so far has a non-empty payload
NonEmptyPayloads == \A i \in 1..Len(rsentLog) : rsentLog[i].pkt.payload # << >>

\* C17: for a stream of 14-byte-header packets with non-empty payloads
\* delivered in arbitrary recv fragments without timeouts, successive
\* receive_packet calls of SampleClient and PacketClient return the packets of
\* the stream in order, each with packet_id, counter, content_length and
\* timestamp_ns equal to the little-endian header fields and with
\* len(payload) == content_length, each call consuming 14 + content_length bytes
C17_ExtendedDecoding ==
    (rclient \in ExtendedClients /\ NonEmptyPayloads) =>
       /\ Len(rreturned) <= Len(rsentLog)
       /\ \A i \in 1..Len(rreturned) :
             /\ rreturned[i] = rsentLog[i]
             /\ Len(rreturned[i].pkt.payload) = rreturned[i].pkt.content_length
       /\ (rpc = "idle" /\ rreturned # << >>) =>
             /\ rlast = rreturned[Len(rreturned)].pkt
             /\ rconsumed = rcallStart + HEADER_SIZE + rlast.content_length

\* two packets were returned, the second with a counter of two bytes
C17_Witness ==
    /\ rclient \in ExtendedClients
    /\ NonEmptyPayloads
    /\ rpc = "idle"
    /\ Len(rreturned) = 2
    /\ rreturned[2].pkt.counter = 258

\* C18: a well-formed extended-header packet whose length field is 0 is
\* returned by receive_packet as a packet with an empty payload, the call
\* having consumed exactly the 14 header bytes; it is not reported as None
C18_EmptyPayloadReturned ==
    \A i \in 1..Len(rsentLog) :
        (/\ rclient \in ExtendedClients
         /\ rsentLog[i].pkt.payload = << >>
         /\ rcallStart = rsentLog[i].at
         /\ rconsumed = rcallStart + HEADER_SIZE
         /\ rpc = "idle") => rlast = rsentLog[i].pkt

\* C19: tcp_client_demo receive_packets: over successive calls the packets
\* delivered are the same, in the same order, as when the whole stream is
\* decoded as one contiguous buffer: a packet split across two recv results
\* is still delivered, several packets in one recv result are all delivered
C19_SplitPacketsDelivered ==
    (dinflight = << >> /\ dwire = << >> /\ dreadBy = {"receive_packets"}) =>
        dall = ScanPackets(dstream, 0).packets

\* the packets of the list are consecutive packets of the stream, each read
\* from the offset it was sent at
ConsecutiveStreamPackets(packets) ==
    \E j \in 0..Len(rsentLog) :
        \A i \in 1..Len(packets) :
            /\ j + i <= Len(rsentLog)
            /\ packets[i] = rsentLog[j + i]

\* C20: receive_packets(count, timeout) of SampleClient and PacketClient
\* returns a list of at most count packets, in stream order with no packet
\* skipped between two returned ones; it returns fewer than count exactly
\* when a receive_packet call returned None
C20_BatchInOrder ==
    bpc \in {"returned", "broke"} =>
       /\ Len(bpackets) <= bcount
       /\ ConsecutiveStreamPackets(bpackets)
       /\ Len(bpackets) < bcount <=> bpc = "broke"

\* C21: the timeout of receive_packets is a deadline for the whole call: the
\* call returns no later than timeout (plus one polling step, a tick) after
\* it started, however many chunks arrive in the meantime
C21_DeadlineForWholeCall ==
    bpc \in {"returned", "broke"} => bnow <= BatchTimeout + 1

\* C22: the queue of received packets that no request consumed
\* (TCPClient.received_packets) never exceeds its capacity: a packet that
\* arrives while the queue is at capacity replaces the oldest one
C22_QueueBounded == Len(received_packets) <= QueueCapacity

\* the step is a call send_to(data, address) of the UdpServer
IsSendTo(address) == \E d \in UdpData : UdpSendTo(d, address)

\* a send_to without an address, and a reply, that sends, sends one datagram
\* to the last sender
RepliesToLastSender ==
    ((IsSendTo(0) \/ IsSendTo(u_last_sender)) /\ u_result' = "sent") =>
        /\ Len(u_out') = Len(u_out) + 1
        /\ u_out'[Len(u_out')].address = u_last_sender
        /\ u_last_sender = u_packet.address

\* C23: UdpServer.last_sender is None until the first datagram is received
\* and is always the source address of the most recent datagram recv_from
\* returned; reply(data) and send_to(data) without an address send to
\* exactly that address
C23_LastSender ==
    [](u_last_sender = u_packet.address) /\ [][RepliesToLastSender]_vars

\* datagrams were received from sender 1 and then from sender 2, and a
\* send_to without address went to each of them in turn
C23_Witness ==
    /\ u_last = "send_to"
    /\ u_address = 0
    /\ u_result = "sent"
    /\ u_last_sender = 2
    /\ u_packet.address = 2
    /\ Len(u_out) = 2
    /\ u_out[1].address = 1
    /\ u_out[2].address = 2

\* a send_to with neither an address nor a recorded sender raises and
\* changes nothing; a send_to with an address on a started server sends one
\* datagram to that address
SendDestination ==
    /\ (IsSendTo(0) /\ u_last_sender = 0) =>
           /\ u_result' = "RuntimeError"
           /\ UNCHANGED << u_socket, u_last_sender, u_sockState, u_queue, u_out, u_packet,
                           u_timeout >>
    /\ \A a \in UdpSenders :
           (IsSendTo(a) /\ u_socket # 0) =>
               /\ u_result' = "sent"
               /\ Len(u_out') = Len(u_out) + 1
               /\ u_out'[Len(u_out')].address = a

\* C24: UdpServer.send_to with no explicit address and no recorded sender
\* (and reply() before any datagram was received) fails with an error,
\* transmits nothing and leaves the server unchanged; with an explicit
\* address it sends to that address even when a different last sender is
\* recorded
C24_SendDestination == [][SendDestination]_vars

\* a datagram was sent to address 1 while the recorded last sender is 2
C24_Witness ==
    /\ u_last = "send_to"
    /\ u_address = 1
    /\ u_result = "sent"
    /\ u_last_sender = 2
    /\ u_out # << >>
    /\ u_out[Len(u_out)].address = 1

\* send_to without address has raised on a started server that has not
\* received any datagram
C24_ReachedNoDestination ==
    /\ u_last = "send_to"
    /\ u_address = 0
    /\ u_result = "RuntimeError"
    /\ u_socket # 0
    /\ u_last_sender = 0
    /\ u_out = << >>

\* the datagram holds a whole simplified header and the payload it announces
ValidDatagram(d) ==
    /\ Len(d) >= 4
    /\ Len(d) >= 4 + UnpackU16(d[3], d[4])

\* C25: a datagram shorter than a packet header, or whose header claims more
\* payload than the datagram holds, is discarded: recv_from never returns it
C25_InvalidDatagramDiscarded ==
    (u_last = "recv_from" /\ u_result = "UdpPacket") => ValidDatagram(u_packet.data)

\* the UDP receive timeout the test is configured with: the argument of its
\* udp_timeout marker, else the value of --udp-timeout
UdpConfiguredTimeout ==
    IF u_marker.present /\ u_marker.args # << >> THEN u_marker.args[1] ELSE u_option

\* C30: the timeout applied to a receive made through the udp_server fixture
\* is the argument of the test's udp_timeout marker, and otherwise the value
\* of the --udp-timeout option (default 10.0)
C30_UdpTimeoutConfigured ==
    (u_last = "recv_from" /\ u_socket # 0) => u_timeout = UdpConfiguredTimeout

\* C26: encoding a packet whose payload is longer than 65535 bytes fails with
\* an error and hands no bytes to the socket, and the length field of every
\* header an encoder emits is the length of the payload that follows it
C26_LengthFieldIsPayloadLength ==
    cpc \in {"True", "False", "raised"} =>
        /\ Len(cpkt.payload) > 65535 => (cpc \in {"False", "raised"} /\ csent = << >>)
        /\ cwire \notin {<< >>, ValueError, StructError} =>
               (Len(cwire) >= 4 /\ UnpackU16(cwire[3], cwire[4]) = Len(cwire) - 4)
        /\ csent # << >> =>
               /\ csent = cwire
               /\ Drop(csent, 4) = cpkt.payload

\* create_packet has encoded the longest payload that fits, 65535 bytes,
\* and send_packet sent it
C26_Witness ==
    /\ cenc = "demo.send_packet"
    /\ cpc = "True"
    /\ Len(cpkt.payload) = 65535
    /\ Len(csent) = 65539
    /\ csent[3] = 255
    /\ csent[4] = 255

\* an encoder has failed on a payload of 65536 bytes
C26_ReachedTooLarge ==
    /\ Len(cpkt.payload) = 65536
    /\ cpc \in {"False", "raised"}
    /\ cwire \in {ValueError, StructError}
    /\ csent = << >>

\* C27: encoding version 1, packet_id 9 and a payload of 7 bytes gives exactly
\* the 11 bytes 01 09 07 00 followed by the payload, and the receive loop
\* decoding those 11 bytes appends the original packet and removes exactly
\* 11 bytes from its buffer
C27_WireLayout ==
    /\ csent # << >> => (csent = << 1, 9, 7, 0 >> \o cpkt.payload /\ Len(csent) = 11)
    /\ received_packets # << >> => received_packets = << cpkt >>
    /\ emitted[1] = 1 => buffer[1] = Drop(bufAtParse[1], 11)
    /\ (stream # << >> /\ StreamConsumed /\ tpc[1] = "loop") =>
           (received_packets = << cpkt >> /\ buffer[1] = << >>)

\* the 11 bytes arrived in more than one recv and the packet was appended
C27_Witness ==
    /\ csent = << 1, 9, 7, 0, 7, 14, 21, 28, 35, 42, 49 >>
    /\ StreamConsumed
    /\ tpc[1] = "loop"
    /\ emitted[1] = 1
    /\ Len(bufAtParse[1]) = 11
    /\ Len(lastData[1]) < 11
    /\ received_packets = << cpkt >>
    /\ buffer[1] = << >>

\* C28: once stop_sampling() has been sent and the device has stopped
\* producing, a receive_packets call that starts then returns zero packets
C28_NoPacketsAfterStop ==
    (bpc \in {"returned", "broke"} /\ bquiet) => bpackets = << >>

\* C29: the timeout of the socket of the tcp_connection fixture (either
\* harness package) is the argument of the tcp_timeout marker when the
\* marker is present with an argument, otherwise the value of the
\* --tcp-timeout option, otherwise 10.0 seconds (100 tenths)
C29_TimeoutPriority ==
    fsock # 0 =>
        fsockTimeout = (IF fmarker.present /\ fmarker.args # << >> THEN fmarker.args[1]
                        ELSE IF foption.given THEN foption.value
                        ELSE 100)

\* a test marked tcp_timeout(0.5) run with --tcp-timeout=5.0 got a socket
\* whose timeout is 0.5 s
C29_Witness ==
    /\ fpc = "yielded"
    /\ fmarker = [present |-> TRUE, args |-> << 5 >>]
    /\ foption = [registered |-> TRUE, given |-> TRUE, value |-> 50]
    /\ fsockTimeout = 5

\* the option decided: no marker argument, --tcp-timeout=2.5
C29_ReachedOption ==
    /\ fpc = "yielded"
    /\ fharness = "zephyr_io_harness"
    /\ fmarker = [present |-> TRUE, args |-> << >>]
    /\ foption.given
    /\ fsockTimeout = 25

\* the default decided: no marker, option not registered
C29_ReachedDefault ==
    /\ fpc = "yielded"
    /\ fmarker = NoMarker
    /\ foption = NoOption
    /\ fsockTimeout = 100

\* C31: each iteration of the inner loop of _receive_loop, and of the loops
\* of receive_packets / receive_temperature_data of the demo client, either
\* consumes at least one byte or ends the loop, whatever bytes the buffer
\* holds; no iteration gives bytes back
LoopAdvances ==
    /\ Parse(1) => /\ Len(buffer'[1]) <= Len(buffer[1])
                   /\ tpc'[1] = "parse" => Len(buffer'[1]) < Len(buffer[1])
    /\ DemoScanStep => /\ doffset' >= doffset
                       /\ doffset' <= Len(ddata)
                       /\ dpc' = "scan" => doffset' > doffset
C31_LoopsTerminate == [][LoopAdvances]_vars

\* the inner loop of _receive_loop is inside a buffer that began with a
\* byte that is not the version, and has consumed bytes of it
C31_Witness ==
    /\ tpc[1] = "parse"
    /\ bufAtParse[1] # << >>
    /\ bufAtParse[1][1] # IOTSENSE_VERSION
    /\ Len(buffer[1]) < Len(bufAtParse[1])
    /\ Len(buffer[1]) >= 4

\* the loop of the demo client has skipped corrupt bytes and found a packet
C31_ReachedDemo ==
    /\ dpc = "scan"
    /\ ddata[1] # IOTSENSE_VERSION
    /\ dstarts # << >>
    /\ dstarts[1] > 1

\* the buffer holds no complete packet
NoCompletePacket(buf) ==
    \/ Len(buf) < 4
    \/ 4 + UnpackU16(buf[3], buf[4]) > Len(buf)

\* the buffer changes by bytes appended or by a prefix removed
GrowsOrShrinks ==
    LET old == buffer[1]
        new == buffer'[1]
    IN  new # old =>
           \/ Len(new) > Len(old) /\ Take(new, Len(old)) = old
           \/ Len(new) < Len(old) /\ new = Drop(old, Len(old) - Len(new))

\* C32: whenever _receive_loop is back at waiting for data its buffer holds no
\* complete packet (fewer than 4 bytes, or a header whose 4 + payload_len
\* exceeds the buffered length), and the buffer only grows by bytes
\* appended and only shrinks by a prefix removed
C32_BufferInvariant ==
    /\ [](tpc[1] \in {"loop", "recv", "inrecv"} => NoCompletePacket(buffer[1]))
    /\ [][GrowsOrShrinks]_vars

\* the loop is back at waiting after it appended a packet, with the header
\* of an incomplete packet left in the buffer
C32_Witness ==
    /\ tpc[1] = "loop"
    /\ emitted[1] >= 1
    /\ Len(buffer[1]) >= 4
    /\ Len(buffer[1]) < Len(bufAtParse[1])

\* the bytes recv has returned to the receive loop so far
ReceivedSoFar == Take(stream, Len(stream) - Len(inflight[1]) - Len(wire[1]))

\* C33: the header and payload bytes of all packets appended since connect,
\* in order, followed by the buffer, are the bytes received so far; and
\* unpack returns a packet for every buffer of 4 or more bytes the inner
\* loop sees, so 'skip first byte' is never executed
C33_ByteConservation ==
    /\ PackAll(received_packets) \o buffer[1] = ReceivedSoFar
    /\ (tpc[1] = "parse" /\ Len(buffer[1]) >= 4) => unpack(buffer[1]) # None

\* a packet whose version byte is not IOTSENSE_VERSION was appended from
\* corrupt bytes, and bytes are left in the buffer
C33_Witness ==
    /\ received_packets # << >>
    /\ received_packets[1].version # IOTSENSE_VERSION
    /\ buffer[1] # << >>
    /\ tpc[1] = "loop"
    /\ inflight[1] = << >>
    /\ wire[1] = << >>

\* C40: every packet in received_packets has len(payload) == payload_len,
\* although unpack returns a packet with the payload_len of the header and
\* an empty payload for a buffer shorter than 4 + payload_len
C40_AppendedPacketsComplete ==
    \A i \in 1..Len(received_packets) :
        Len(received_packets[i].payload) = received_packets[i].payload_len

\* a packet with a payload was appended, and the buffer now holds a header
\* for which unpack returns payload_len > 0 and an empty payload
C40_Witness ==
    /\ \E i \in 1..Len(received_packets) : received_packets[i].payload_len > 0
    /\ tpc[1] = "loop"
    /\ Len(buffer[1]) >= 4
    /\ unpack(buffer[1]).payload_len > 0
    /\ unpack(buffer[1]).payload = << >>

\* disconnect() has returned and no other call was made since
DisconnectReturned == mpc = "idle" /\ scen \in {"closed", "closed again"}

\* C34: after disconnect() has returned no receive thread of the client is
\* still running, so none appends to received_packets any more
C34_NoThreadAfterDisconnect ==
    DisconnectReturned => \A t \in Sockets : tpc[t] \in {"none", "done"}

\* C35: when disconnect() of a SampleClient or a TCPClient has returned,
\* every socket its connect() calls created is closed
C35_NoSocketLeak ==
    /\ (sclient = "SampleClient" /\ s_last \in {"disconnect", "disconnect again"}) =>
           \A x \in Sockets : s_sockState[x] \in {"none", "closed"}
    /\ DisconnectReturned => \A x \in Sockets : sockState[x] \in {"none", "closed"}

\* C36: in both tcp_connection fixtures every socket created is closed when
\* the fixture has finished (returned after the teardown, or left by an
\* exception), and the socket of a failed attempt is closed before the next
\* attempt
C36_FixtureClosesSockets ==
    /\ fpc \in {"returned", "raised", "error"} => fopen = {}
    /\ fpc = "loop" => fopen = {}

(***************************************************************************)
(* SampleClient: the counters over its whole life                          *)
(***************************************************************************)
\* self.sock is a socket that is connected
SampleUsable == IF s_sock = 0 THEN FALSE ELSE s_sockState[s_sock] = "connected"

\* receive_packet of a SampleClient without a usable socket: 'if not
\* self.sock: return None'; on a socket whose connect failed sock.recv raises
\* OSError and 'except Exception' returns None
SampleReceiveFails ==
    /\ rclient = "SampleClient"
    /\ rpc = "idle"
    /\ bpc # "calling"
    /\ ~SampleUsable
    /\ rlast' = SensorNone
    /\ rwhy' = IF s_sock = 0 THEN "nosock" ELSE "error"
    /\ rcallStart' = rconsumed
    /\ UNCHANGED << timeVars, counterVars, timeoutVars, samplingVars, rclosed, batchVars, rclient,
                    rinflight, rwire, rpc, rdata, rhdr, rcaller, ppc, pingSeq, pingResult,
                    rsentLog, rtotal, rconsumed, rreturned, pingWhy >>
    /\ UNCHANGED << sessionVars, codecVars, tcpVars, demoVars >>

\* receive_packet() of a connected SampleClient
LifeReceivePacket == SampleUsable /\ SampleReceivePacket

\* the server streams to the SampleClient that is connected to it
LifePeerSends == SampleUsable /\ PeerSendSensor

\* connect() between two receive_packet calls, when the server has nothing
\* on its way to the socket being replaced
LifeConnect ==
    /\ rclient = "SampleClient"
    /\ rpc = "idle"
    /\ rinflight = << >>
    /\ rwire = << >>
    /\ SampleConnect

\* disconnect() between two receive_packet calls, when the server has
\* nothing on its way to the socket
LifeDisconnect ==
    /\ rclient = "SampleClient"
    /\ rpc = "idle"
    /\ rinflight = << >>
    /\ rwire = << >>
    /\ SampleDisconnect

LifeNext ==
    \/ LifeConnect
    \/ LifeDisconnect
    \/ LifePeerSends
    \/ ReaderDeliver
    \/ LifeReceivePacket
    \/ SampleReceiveFails
    \/ SampleRecvExact
    \/ SampleRecvTimeout

\* a SampleClient just constructed; time is not observed
InitLife ==
    /\ ReaderConnected
    /\ rclient = "SampleClient"
    /\ rsockTimeout = SampleTimeout
    /\ bnow = -1
    /\ rblocked = -1
    /\ sampling = FALSE
    /\ SampleInit
    /\ CallIdle /\ UdpIdle /\ FixtureIdle
    /\ CodecIdle /\ TcpIdle /\ DemoIdle
SpecLife == InitLife /\ [][LifeNext]_vars

\* sum of 14 + content_length over the packets receive_packet returned
RECURSIVE ReturnedBytes(_)
ReturnedBytes(returned) ==
    IF returned = << >> THEN 0
    ELSE 14 + Head(returned).pkt.content_length + ReturnedBytes(Tail(returned))

\* a receive_packet call returns None in this step
ReturnsNone ==
    /\ rlast' = SensorNone
    /\ \/ rpc \in {"header", "payload"} /\ rpc' = "idle"
       \/ rwhy' \in {"nosock", "error"} /\ rcallStart' = rconsumed /\ rpc = "idle" /\ rpc' = "idle"
             /\ UNCHANGED << sampleVars, rtotal, rwire >>

\* a connect() or disconnect() call is made in this step
LifecycleCall == s_sockState' # s_sockState \/ (s_last' # s_last) \/ (s_sock' # s_sock)

\* C37: packet_count is the number of packets receive_packet has returned
\* since construction and bytes_received the sum of 14 + content_length over
\* them; a call that returns None, a connect() and a disconnect() leave
\* both counters as they were
C37_CountersMatchReturns ==
    /\ [](packet_count = Len(rreturned) /\ bytes_received = ReturnedBytes(rreturned))
    /\ [][(ReturnsNone \/ LifecycleCall) => UNCHANGED counterVars]_vars

\* two packets were counted, one before and one after a reconnect, and the
\* last call returned None on a timeout
C37_Witness ==
    /\ packet_count = 2
    /\ s_sock = 2
    /\ s_sockState[2] = "connected"
    /\ rwhy = "timeout"
    /\ rreturned[2].at > rreturned[1].at

\* C38: _last_sender changes only in a recv_from that returns a packet, to
\* the sender of that packet: start, stop, clear, a recv_from that raises,
\* send_to and reply leave it; so a send_to without address goes to the
\* last sender recorded, also when the server was stopped and started since
C38_LastSenderOnlyByRecvFrom ==
    /\ [][u_last_sender' # u_last_sender =>
              /\ u_last' = "recv_from"
              /\ u_result' = "UdpPacket"
              /\ u_last_sender' = u_packet'.address]_vars
    /\ []((u_last = "send_to" /\ u_address = 0 /\ u_result = "sent") =>
              /\ u_out[Len(u_out)].address = u_last_sender
              /\ u_last_sender = u_packet.address)

\* a send_to without address on the second socket of the server, on which
\* nothing was received, went to the sender recorded on the first socket
C38_Witness ==
    /\ u_last = "send_to"
    /\ u_address = 0
    /\ u_result = "sent"
    /\ u_socket = 2
    /\ u_sockState[1] = "closed"
    /\ u_timeout = -1
    /\ u_out[Len(u_out)].address = u_last_sender

(***************************************************************************)
(* SampleClient.receive_packets and the timeout of the socket              *)
(***************************************************************************)
\* the timeout argument of SampleClient(): None (a blocking socket) or the default
SampleTimeouts == {NoTimeout, SampleTimeout}

RestoreNext ==
    \/ DeviceStreams
    \/ ReaderDeliver
    \/ BatchStart
    \/ BatchStartNoTimeout
    \/ BatchCollect
    \/ SampleRecvExact
    \/ SampleRecvTimeout

\* a SampleClient connected with either timeout to a device that is
\* sampling; time is not observed
InitRestore ==
    /\ ReaderConnected
    /\ rclient = "SampleClient"
    /\ rsockTimeout \in SampleTimeouts
    /\ bnow = -1
    /\ rblocked = -1
    /\ sampling = TRUE
    /\ CodecIdle /\ TcpIdle /\ DemoIdle /\ SessionIdle
SpecRestore == InitRestore /\ [][RestoreNext]_vars

\* C39: when receive_packets of a SampleClient has returned, the timeout of
\* the socket is the one it had when the call started, blocking mode (None)
\* included
C39_TimeoutRestored ==
    bpc \in {"broke", "returned"} => rsockTimeout = old_timeout

=============================================================================
